---------------------------- MODULE Spec2Model ----------------------------
(***************************************************************************)
(* Model of the IP4 peer-connection test of helia-tests: the responder     *)
(* (alice.js, two variants) and the initiator (bob.js, two variants), and  *)
(* the pollUntil primitive all of them share.                              *)
(*                                                                         *)
(* JavaScript values are written as their JSON text: "true", "0",          *)
(* "482913", "null", "'bob'" (a string), and "undefined" for an absent     *)
(* property.  A JavaScript macrotask (a callback run to its next await on  *)
(* I/O or a timer) is one action.                                          *)
(***************************************************************************)
EXTENDS Integers, Sequences, FiniteSets, TLC

VARIABLES
    \* ---- pollUntil in isolation
    poll,                 \* the activation record of one pollUntil call
    cond,                 \* what conditionFn() returns when called now
    condEverTrue,         \* history: cond was true at some moment of the call
    evalMs,               \* how long one await conditionFn() takes
    \* ---- the responder (alice.js)
    variant,              \* 1: alice.js lines 1-343, 2: alice.js lines 345-826
    alicePc,              \* where start()/runTest is suspended
    alicePoll,            \* runTest's pollUntil activation record
    bobPeerId, testMessageReceived, testMessageData, acknowledgmentSent,
    peerList, peerData,   \* ipfsCoord.thisNode.peerList / peerData
    wrapped,              \* handleIncomingData has been replaced by the wrapper
    inflight,             \* inbound messages inside the wrapper or the original handler
    aliceSent,            \* calls of sendPrivateMessage: <<[to, message]>>
    aliceErr,             \* the error runTest's catch received, or "none"
    aliceExit,            \* process.exit status, or -1 while running
    firstPinned,          \* history: the first identity bobPeerId was ever set to
    answered,             \* history: testMessageData as runTest read it after its wait
    \* ---- the initiator (bob.js)
    bobVariant,           \* "announce": part_000, "direct": part_001
    ALICE_MULTIADDR,      \* the configured address, as its components
    bobPc, bobPoll,
    alicePeerId, acknowledgmentReceived, acknowledgmentData,
    bobPeerList, bobPeerData,   \* Bob's ipfsCoord.thisNode.peerList / peerData
    connectedPeers,       \* what adapters.ipfs.getPeers() returns
    bobSent,              \* calls of sendPrivateMessage: <<[to, message]>>
    bobErr, bobExit,
    directFailed,         \* history: the direct connection attempt failed
    listAtFailure,        \* history: peerList.length when it failed, -1 before
    connSeen,             \* history: the identities a getPeers() check of
                          \* runTest has found connected
    bobCalls,             \* history: the calls of connectToPeer and
                          \* refreshPeerConnections that have settled
    ackDuringSend         \* history: Alice's acknowledgment reached the handler
                          \* while runTest awaited sendPrivateMessage

pollVars  == <<poll, cond, condEverTrue, evalMs>>
aliceVars == <<variant, alicePc, alicePoll, bobPeerId, testMessageReceived,
               testMessageData, acknowledgmentSent, peerList, peerData, wrapped,
               inflight, aliceSent, aliceErr, aliceExit, firstPinned, answered>>
bobVars   == <<bobVariant, ALICE_MULTIADDR, bobPc, bobPoll, alicePeerId,
               acknowledgmentReceived, acknowledgmentData, bobPeerList,
               bobPeerData, connectedPeers, bobSent, bobErr, bobExit,
               directFailed, listAtFailure, connSeen, bobCalls,
               ackDuringSend>>
vars      == <<pollVars, aliceVars, bobVars>>

-----------------------------------------------------------------------------
(* Bounds of the model *)

\* a sleep wakes on time or LateMs late (pollUntil in isolation)
LateMs == 250
\* a slow conditionFn takes SlowEvalMs (pollUntil in isolation)
SlowEvalMs == 300
\* on-time wake-ups per pollUntil call inside a workflow; later ones stall
MaxOnTime == 1
\* inbound messages inside the wrapper or the original handler at one time
MaxInFlight == 2

-----------------------------------------------------------------------------
(* JavaScript values *)

Undef == "undefined"
Null  == "null"
JTrue == "true"

\* !x
Falsy(x) == x \in {Undef, Null, "false", "0", "''", "NaN"}

\* x || null
OrNull(x) == IF Falsy(x) THEN Null ELSE x

\* the value null where an object is expected
NullData == [ type |-> "null" ]

\* an object with none of the properties the programs read
EmptyObject ==
    [ type |-> "object", test |-> Undef, from |-> Undef, randomNumber |-> Undef,
      timestamp |-> Undef, encryptPubKey |-> Undef, acknowledgment |-> Undef,
      ack |-> Undef, response |-> Undef, receivedRandomNumber |-> Undef,
      originalTimestamp |-> Undef ]

\* a string that is not JSON text
NotJson(text) == [ json |-> FALSE, text |-> text ]

\* JSON.stringify(o): properties that are undefined are left out, which is
\* how an object is written here
JSONStringify(o) == [ json |-> TRUE, value |-> o ]

\* JSON.parse(s): the value, or a SyntaxError
JSONParse(s) ==
    IF s.json THEN [ ok |-> TRUE, value |-> s.value ] ELSE [ ok |-> FALSE ]

\* try { messageData = JSON.parse(decryptedPayload) } catch { messageData = decryptedPayload }
MessageData(decryptedPayload) ==
    IF JSONParse(decryptedPayload).ok
    THEN JSONParse(decryptedPayload).value
    ELSE [ type |-> "string", text |-> decryptedPayload.text ]

\* messageData as a condition
Truthy(md) == md.type = "object" \/ (md.type = "string" /\ md.text # "''")

\* md.f, undefined on a string; md?.f, undefined on null
Prop(md, f) == IF md.type = "object" THEN md[f] ELSE Undef

-----------------------------------------------------------------------------
(* pollUntil *)

\* no error was thrown
NoError == [ kind |-> "none" ]

\* const startTime = Date.now(); elapsed stands for Date.now() - startTime
PollUntil(intervalMs, timeoutMs, description) ==
    [ pc          |-> "check",
      elapsed     |-> 0,
      evals       |-> 0,
      seen        |-> "none",
      intervalMs  |-> intervalMs,
      timeoutMs   |-> timeoutMs,
      description |-> description,
      error       |-> NoError ]

\* new Error(`Timeout waiting for ${description} after ${timeoutMs}ms`)
TimeoutError(description, timeoutMs) ==
    [ kind |-> "Timeout", description |-> description, timeoutMs |-> timeoutMs ]

\* PollIterate with the loop test against intervalMs instead of timeoutMs
PollIterateWrongLimit(p, c, cost) ==
    IF p.elapsed < p.intervalMs
    THEN [ p EXCEPT !.pc      = IF c THEN "returned" ELSE "sleep",
                    !.evals   = @ + 1,
                    !.seen    = IF c THEN "true" ELSE "false",
                    !.elapsed = @ + cost ]
    ELSE [ p EXCEPT !.pc    = "thrown",
                    !.error = TimeoutError(p.description, p.timeoutMs) ]

\* PollIterate whose loop never looks at what conditionFn returned
PollIterateBlind(p, c, cost) ==
    IF p.elapsed < p.timeoutMs
    THEN [ p EXCEPT !.pc      = "sleep",
                    !.evals   = @ + 1,
                    !.seen    = IF c THEN "true" ELSE "false",
                    !.elapsed = @ + cost ]
    ELSE [ p EXCEPT !.pc    = "thrown",
                    !.error = TimeoutError(p.description, p.timeoutMs) ]

\* PollIterate with <= for < in the loop test
PollIterateInclusive(p, c, cost) ==
    IF p.elapsed <= p.timeoutMs
    THEN [ p EXCEPT !.pc      = IF c THEN "returned" ELSE "sleep",
                    !.evals   = @ + 1,
                    !.seen    = IF c THEN "true" ELSE "false",
                    !.elapsed = @ + cost ]
    ELSE [ p EXCEPT !.pc    = "thrown",
                    !.error = TimeoutError(p.description, p.timeoutMs) ]

\* the loop test, and then await conditionFn(), which returns c after cost ms
PollIterate(p, c, cost) ==
    IF p.elapsed < p.timeoutMs
    THEN [ p EXCEPT !.pc      = IF c THEN "returned" ELSE "sleep",
                    !.evals   = @ + 1,
                    !.seen    = IF c THEN "true" ELSE "false",
                    !.elapsed = @ + cost ]
    ELSE [ p EXCEPT !.pc    = "thrown",
                    !.error = TimeoutError(p.description, p.timeoutMs) ]

\* await sleep(intervalMs) resolves, late ms after it was due
PollWake(p, late) ==
    [ p EXCEPT !.pc = "check", !.elapsed = @ + p.intervalMs + late ]

NoPoll == PollUntil(0, 0, "none")

-----------------------------------------------------------------------------
(* pollUntil in isolation *)

\* the calls of pollUntil with a timeout of at most a minute, and the
\* timeout scenario (500 ms, 5000 ms)
PollCalls ==
    { <<500, 5000, "scenario">>,
      <<500, 10000, "connection verification">>,
      <<500, 10000, "Alice peer data verification">>,
      <<1000, 30000, "connection to Alice">>,
      <<2000, 60000, "Alice announcement">>,
      <<500, 30000, "acknowledgment from Alice">> }

FrozenAlice ==
    /\ variant = 1 /\ alicePc = "off" /\ alicePoll = NoPoll
    /\ bobPeerId = Null /\ testMessageReceived = FALSE
    /\ testMessageData = NullData
    /\ acknowledgmentSent = FALSE /\ peerList = <<>> /\ peerData = <<>>
    /\ wrapped = FALSE /\ inflight = {} /\ aliceSent = <<>>
    /\ aliceErr = NoError /\ aliceExit = -1 /\ firstPinned = Null
    /\ answered = NullData

FrozenBob ==
    /\ bobVariant = "direct" /\ ALICE_MULTIADDR = <<>> /\ bobPc = "off"
    /\ bobPoll = NoPoll /\ alicePeerId = Null
    /\ acknowledgmentReceived = FALSE /\ acknowledgmentData = NullData
    /\ bobPeerList = <<>> /\ bobPeerData = <<>> /\ connectedPeers = {}
    /\ bobSent = <<>> /\ bobErr = NoError /\ bobExit = -1
    /\ directFailed = FALSE /\ listAtFailure = -1 /\ ackDuringSend = FALSE
    /\ connSeen = {} /\ bobCalls = <<>>

FrozenPoll ==
    /\ poll = NoPoll /\ cond = FALSE /\ condEverTrue = FALSE /\ evalMs = 0

InitPoll ==
    /\ \E c \in PollCalls : poll = PollUntil(c[1], c[2], c[3])
    /\ cond \in BOOLEAN
    /\ condEverTrue = cond
    /\ evalMs \in {0, SlowEvalMs}
    /\ FrozenAlice /\ FrozenBob

\* shared state changes while pollUntil sleeps
CondChanges ==
    /\ poll.pc = "sleep"
    /\ cond' = ~cond
    /\ condEverTrue' = TRUE
    /\ UNCHANGED <<poll, evalMs, aliceVars, bobVars>>

PollStep ==
    /\ poll.pc = "check"
    /\ poll' = PollIterate(poll, cond, evalMs)
    /\ UNCHANGED <<cond, condEverTrue, evalMs, aliceVars, bobVars>>

PollSleepEnds ==
    /\ poll.pc = "sleep"
    /\ \E late \in {0, LateMs} : poll' = PollWake(poll, late)
    /\ UNCHANGED <<cond, condEverTrue, evalMs, aliceVars, bobVars>>

NextPoll == CondChanges \/ PollStep \/ PollSleepEnds

SpecPoll == InitPoll /\ [][NextPoll]_vars

\* C3: pollUntil returns success only after an evaluation of the predicate
\* returned a truthy value; it raises an error only when the time elapsed
\* since its start is at least timeoutMs, and the error carries the
\* description and the timeout the caller supplied.
C3_PollOutcome ==
    /\ poll.pc = "returned" => poll.evals >= 1 /\ poll.seen = "true"
    /\ poll.pc = "thrown" =>
          /\ poll.elapsed >= poll.timeoutMs
          /\ poll.error.kind = "Timeout"
          /\ poll.error.description = poll.description
          /\ poll.error.timeoutMs = poll.timeoutMs
          /\ \E c \in PollCalls : c[3] = poll.error.description
    /\ poll.pc \in {"check", "sleep", "returned"} => poll.error = NoError

\* a call that timed out after several evaluations of a false predicate
C3_Witness ==
    /\ poll.pc = "thrown"
    /\ poll.evals > 1
    /\ poll.seen = "false"
    /\ poll.description = "connection verification"

\* the timeout scenario: timeout 5000 ms, interval 500 ms, a predicate that
\* is false throughout and takes no time
TimeoutScenario ==
    /\ poll.timeoutMs = 5000
    /\ poll.intervalMs = 500
    /\ evalMs = 0
    /\ ~condEverTrue

\* C4 as stated: in the timeout scenario pollUntil raises the labelled
\* timeout error after at least 5000 ms and at most 5 evaluations of the
\* predicate beyond the first.
C4_AsStated ==
    (TimeoutScenario /\ poll.pc = "thrown") =>
        /\ poll.elapsed >= 5000
        /\ poll.error = TimeoutError("scenario", 5000)
        /\ poll.evals - 1 <= 5

\* C4 amended: in the timeout scenario pollUntil never returns; it raises
\* the labelled timeout error after at least 5000 ms and at most 9
\* evaluations of the predicate beyond the first (10 in all).
C4_TimeoutScenario ==
    TimeoutScenario =>
        /\ poll.pc # "returned"
        /\ poll.evals - 1 <= 9
        /\ poll.pc = "thrown" =>
              /\ poll.elapsed >= 5000
              /\ poll.error = TimeoutError("scenario", 5000)

\* the scenario timed out with every sleep on time: 10 evaluations
C4_Witness ==
    /\ TimeoutScenario
    /\ poll.pc = "thrown"
    /\ poll.elapsed = 5000
    /\ poll.evals = 10

-----------------------------------------------------------------------------
(* Identities, keys and payloads *)

AliceId == "12D3KooWAlice"
BobId   == "12D3KooWBob"
EveId   == "12D3KooWEve"

\* the public key a peer announces
KeyOf(p) == IF p = BobId THEN "'key1'" ELSE "'key2'"

\* Bob's testMessage; part_000 sends it without encryptPubKey (key = Undef)
TestMessage(randomNumber, key) ==
    [ EmptyObject EXCEPT !.test = JTrue, !.randomNumber = randomNumber,
                         !.timestamp = "'T1'", !.from = "'bob'",
                         !.encryptPubKey = key ]

\* Alice's acknowledgmentMessage for the stored test message md
AcknowledgmentMessage(md) ==
    [ EmptyObject EXCEPT !.acknowledgment = JTrue,
                         !.receivedRandomNumber = OrNull(Prop(md, "randomNumber")),
                         !.originalTimestamp = OrNull(Prop(md, "timestamp")),
                         !.timestamp = "'T2'",
                         !.from = "'alice'" ]

\* the decrypted payloads that reach Alice: Bob's test message with a key
\* (two correlation values, two keys), without a key, and text that is not
\* JSON
AlicePayloads ==
    { JSONStringify(TestMessage("482913", "'key1'")),
      JSONStringify(TestMessage("0", "'key2'")),
      JSONStringify(TestMessage("482913", Undef)),
      NotJson("'hello'") }

\* a pubsub message as handleIncomingData sees it: outerOk, msg.detail.data
\* is JSON text; hasPayload, it has a payload; decryptOk, decryptMsg returns
\* the payload rather than throwing
AliceMessages ==
    { [ from |-> BobId, outerOk |-> TRUE, hasPayload |-> TRUE,
        decryptOk |-> TRUE, payload |-> d ] : d \in AlicePayloads }
    \cup
    { [ from |-> EveId, outerOk |-> TRUE, hasPayload |-> TRUE,
        decryptOk |-> TRUE,
        payload |-> JSONStringify(TestMessage("0", "'key2'")) ] }
    \cup
    { [ from |-> BobId, outerOk |-> b[1], hasPayload |-> b[2],
        decryptOk |-> b[3], payload |-> NotJson("'hello'") ] :
        b \in { <<FALSE, FALSE, FALSE>>, <<TRUE, FALSE, FALSE>>,
                <<TRUE, TRUE, FALSE>> } }

-----------------------------------------------------------------------------
(* The peer registry: thisNode.peerList and thisNode.peerData *)

Includes(list, x) == \E i \in 1..Len(list) : list[i] = x

\* peerData.filter(x => x.from === from)
FilterFrom(pd, from) == SelectSeq(pd, LAMBDA x : x.from = from)

\* the position in pd of FilterFrom(pd, from)[0]
FirstIndex(pd, from) ==
    CHOOSE i \in 1..Len(pd) :
        pd[i].from = from /\ \A j \in 1..(i - 1) : pd[j].from # from

\* an announcement of peer p, with or without data: insert if absent, else
\* merge; a key is never replaced by an empty one
AnnouncePeer(pl, pd, p, hasData, key) ==
    [ peerList |-> IF Includes(pl, p) THEN pl ELSE Append(pl, p),
      peerData |->
        IF Len(FilterFrom(pd, p)) = 0
        THEN Append(pd, [ from |-> p, hasData |-> hasData,
                          encryptPubKey |-> IF hasData THEN key ELSE Undef ])
        ELSE [ pd EXCEPT ![FirstIndex(pd, p)] =
                 [ @ EXCEPT !.hasData = @ \/ hasData,
                            !.encryptPubKey =
                               IF hasData /\ ~Falsy(key) THEN key ELSE @ ] ] ]

\* a runTest that sends without its key bootstrap
BootstrapRunTestNone(pl, pd, from, key) ==
    [ peerList |-> pl, peerData |-> pd ]

\* BootstrapRunTest without the look-up of an existing record
BootstrapAlwaysPush(pl, pd, from, key) ==
    [ peerList |-> IF Includes(pl, from) THEN pl ELSE Append(pl, from),
      peerData |-> Append(pd, [ from |-> from, hasData |-> TRUE,
                                encryptPubKey |-> key ]) ]

\* runTest's key bootstrap
BootstrapRunTest(pl, pd, from, key) ==
    IF Len(FilterFrom(pd, from)) = 0
    THEN [ peerList |-> IF Includes(pl, from) THEN pl ELSE Append(pl, from),
           peerData |-> Append(pd, [ from |-> from, hasData |-> TRUE,
                                     encryptPubKey |-> key ]) ]
    ELSE IF ~pd[FirstIndex(pd, from)].hasData
            \/ Falsy(pd[FirstIndex(pd, from)].encryptPubKey)
         THEN [ peerList |-> pl,
                peerData |-> [ pd EXCEPT ![FirstIndex(pd, from)] =
                                 [ @ EXCEPT !.hasData = TRUE,
                                            !.encryptPubKey = key ] ] ]
         ELSE [ peerList |-> pl, peerData |-> pd ]

\* BootstrapHandler that adds a record for a sender whose record has no key
BootstrapHandlerSecondRecord(pl, pd, from, key) ==
    IF Len(FilterFrom(pd, from)) = 0
       \/ ~pd[FirstIndex(pd, from)].hasData
       \/ Falsy(pd[FirstIndex(pd, from)].encryptPubKey)
    THEN [ peerList |-> IF Includes(pl, from) THEN pl ELSE Append(pl, from),
           peerData |-> Append(pd, [ from |-> from, hasData |-> TRUE,
                                     encryptPubKey |-> key ]) ]
    ELSE [ peerList |-> pl, peerData |-> pd ]

\* the key bootstrap of the second variant's handlePrivateMessage
BootstrapHandler(pl, pd, from, key) ==
    IF Len(FilterFrom(pd, from)) = 0
    THEN [ peerList |-> IF Includes(pl, from) THEN pl ELSE Append(pl, from),
           peerData |-> Append(pd, [ from |-> from, hasData |-> TRUE,
                                     encryptPubKey |-> key ]) ]
    ELSE IF ~pd[FirstIndex(pd, from)].hasData
            \/ Falsy(pd[FirstIndex(pd, from)].encryptPubKey)
         THEN [ peerList |-> pl,
                peerData |-> [ pd EXCEPT ![FirstIndex(pd, from)] =
                                 [ @ EXCEPT !.hasData = TRUE,
                                            !.encryptPubKey = key ] ] ]
         ELSE [ peerList |-> pl, peerData |-> pd ]

\* BootstrapWrapper that writes the key whether or not one is stored
BootstrapOverwrite(pl, pd, from, key) ==
    IF Len(FilterFrom(pd, from)) = 0
    THEN [ peerList |-> IF Includes(pl, from) THEN pl ELSE Append(pl, from),
           peerData |-> Append(pd, [ from |-> from, hasData |-> TRUE,
                                     encryptPubKey |-> key ]) ]
    ELSE [ peerList |-> pl,
           peerData |-> [ pd EXCEPT ![FirstIndex(pd, from)] =
                            [ @ EXCEPT !.hasData = TRUE,
                                       !.encryptPubKey = key ] ] ]

\* the key bootstrap of the handleIncomingData wrapper
BootstrapWrapper(pl, pd, from, key) ==
    IF Len(FilterFrom(pd, from)) = 0
    THEN [ peerList |-> IF Includes(pl, from) THEN pl ELSE Append(pl, from),
           peerData |-> Append(pd, [ from |-> from, hasData |-> TRUE,
                                     encryptPubKey |-> key ]) ]
    ELSE IF ~pd[FirstIndex(pd, from)].hasData
            \/ Falsy(pd[FirstIndex(pd, from)].encryptPubKey)
         THEN [ peerList |-> pl,
                peerData |-> [ pd EXCEPT ![FirstIndex(pd, from)] =
                                 [ @ EXCEPT !.hasData = TRUE,
                                            !.encryptPubKey = key ] ] ]
         ELSE [ peerList |-> pl, peerData |-> pd ]

-----------------------------------------------------------------------------
(* The responder: alice.js *)

aliceFlags == <<bobPeerId, testMessageReceived, testMessageData, firstPinned,
                answered>>
aliceReg   == <<peerList, peerData>>
aliceRun   == <<alicePc, alicePoll, acknowledgmentSent, aliceSent, aliceErr,
                aliceExit>>

AliceRunning == alicePc \notin {"off", "exited"}

\* a classification that asks for all three markers
IsTestMessageAll(md) ==
    /\ Truthy(md)
    /\ Prop(md, "test") = JTrue
    /\ Prop(md, "from") = "'bob'"
    /\ (md.type = "object" /\ Prop(md, "randomNumber") # Undef)

\* a classification that takes any envelope naming its sender for a test
\* message
IsTestMessageAnyFrom(md) ==
    /\ Truthy(md)
    /\ \/ Prop(md, "test") = JTrue
       \/ Prop(md, "from") # Undef
       \/ (md.type = "object" /\ Prop(md, "randomNumber") # Undef)

\* isTestMessage of handlePrivateMessage
IsTestMessage(md) ==
    /\ Truthy(md)
    /\ \/ Prop(md, "test") = JTrue
       \/ Prop(md, "from") = "'bob'"
       \/ (md.type = "object" /\ Prop(md, "randomNumber") # Undef)

\* the wrapper's test of the decrypted payload; its messageData stays
\* undefined when the payload is not JSON
WrapperDetects(decryptedPayload) ==
    /\ JSONParse(decryptedPayload).ok
    /\ Truthy(JSONParse(decryptedPayload).value)
    /\ ~Falsy(Prop(JSONParse(decryptedPayload).value, "encryptPubKey"))
    /\ \/ Prop(JSONParse(decryptedPayload).value, "test") = JTrue
       \/ Prop(JSONParse(decryptedPayload).value, "from") = "'bob'"
       \/ Prop(JSONParse(decryptedPayload).value, "randomNumber") # Undef

\* if (!bobPeerId) bobPeerId = from
PinnedAfter(md, from) ==
    IF IsTestMessage(md) /\ Falsy(bobPeerId) THEN from ELSE bobPeerId

\* the registry after the key bootstrap of the second variant's
\* handlePrivateMessage, which runs for an accepted test message with a key
HandlerRegistry(decryptedPayload, from) ==
    LET md     == MessageData(decryptedPayload)
        pinned == PinnedAfter(md, from)
        accept == IsTestMessage(md) /\ from = pinned
    IN  IF variant = 2 /\ accept /\ ~Falsy(Prop(md, "encryptPubKey"))
        THEN BootstrapHandler(peerList, peerData, pinned,
                              Prop(md, "encryptPubKey"))
        ELSE [ peerList |-> peerList, peerData |-> peerData ]

\* a handler that stores every test message and pins no sender
HandlerFlagsNoPin(decryptedPayload, from) ==
    LET md == MessageData(decryptedPayload)
    IN  [ bobPeerId           |-> bobPeerId,
          testMessageReceived |-> (IsTestMessage(md) \/ testMessageReceived),
          testMessageData     |-> IF IsTestMessage(md) THEN md
                                                       ELSE testMessageData ]

\* bobPeerId, testMessageReceived and testMessageData after
\* handlePrivateMessage has run for a payload
HandlerFlags(decryptedPayload, from) ==
    LET md     == MessageData(decryptedPayload)
        pinned == PinnedAfter(md, from)
        accept == IsTestMessage(md) /\ from = pinned
    IN  [ bobPeerId           |-> pinned,
          testMessageReceived |-> (accept \/ testMessageReceived),
          testMessageData     |-> IF accept THEN md ELSE testMessageData ]

\* handlePrivateMessage(decryptedPayload, from); the second variant also
\* bootstraps the key (ipfsCoordRef.thisNode exists once messages arrive)
HandlePrivateMessage(decryptedPayload, from) ==
    LET flags == HandlerFlags(decryptedPayload, from)
        reg   == HandlerRegistry(decryptedPayload, from)
    IN  /\ bobPeerId' = flags.bobPeerId
        /\ testMessageReceived' = flags.testMessageReceived
        /\ testMessageData' = flags.testMessageData
        /\ peerList' = reg.peerList
        /\ peerData' = reg.peerData
        /\ firstPinned' = IF firstPinned = Null THEN flags.bobPeerId
                                                ELSE firstPinned
        /\ answered' = answered

\* the library calls privateLog for a message that did not pass the wrapper
Deliver ==
    /\ AliceRunning
    /\ ~wrapped
    /\ \E m \in AliceMessages :
          /\ m.outerOk /\ m.hasPayload /\ m.decryptOk
          /\ HandlePrivateMessage(m.payload, m.from)
    /\ UNCHANGED <<variant, wrapped, inflight, aliceRun, pollVars, bobVars>>

\* the wrapper up to its first await: a message that does not parse or has
\* no payload goes to the original handler, any other waits for decryptMsg
WrapperReceive ==
    /\ AliceRunning
    /\ wrapped
    /\ Cardinality(inflight) < MaxInFlight
    /\ \E m \in AliceMessages :
          inflight' = inflight \cup
              { [ msg |-> m,
                  stage |-> IF m.outerOk /\ m.hasPayload
                            THEN "decrypting" ELSE "original" ] }
    /\ UNCHANGED <<variant, wrapped, aliceFlags, aliceReg, aliceRun, pollVars,
                   bobVars>>

\* a wrapper that leaves the key bootstrap to the handlers behind it
WrapperRegistryLate(m) == [ peerList |-> peerList, peerData |-> peerData ]

\* the registry after the wrapper's key bootstrap, which runs for a
\* decrypted test message with a key
WrapperRegistry(m) ==
    IF m.decryptOk /\ WrapperDetects(m.payload)
    THEN BootstrapWrapper(peerList, peerData, m.from,
                          Prop(JSONParse(m.payload).value, "encryptPubKey"))
    ELSE [ peerList |-> peerList, peerData |-> peerData ]

\* decryptMsg settles: the wrapper bootstraps the key of a test message and
\* calls the original handler
WrapperResume ==
    /\ AliceRunning
    /\ \E e \in inflight :
          /\ e.stage = "decrypting"
          /\ LET reg == WrapperRegistry(e.msg)
             IN  /\ peerList' = reg.peerList
                 /\ peerData' = reg.peerData
          /\ inflight' = (inflight \ {e}) \cup
                            { [ msg |-> e.msg, stage |-> "original" ] }
    /\ UNCHANGED <<variant, wrapped, aliceFlags, aliceRun, pollVars, bobVars>>

\* the original handleIncomingData calls privateLog with the payload
OriginalDelivers ==
    /\ AliceRunning
    /\ \E e \in inflight :
          /\ e.stage = "original"
          /\ e.msg.outerOk /\ e.msg.hasPayload /\ e.msg.decryptOk
          /\ HandlePrivateMessage(e.msg.payload, e.msg.from)
          /\ inflight' = inflight \ {e}
    /\ UNCHANGED <<variant, wrapped, aliceRun, pollVars, bobVars>>

\* the original handleIncomingData ends without calling privateLog: it
\* returns, or it throws out of the wrapper's last statement
OriginalDrops ==
    /\ AliceRunning
    /\ \E e \in inflight :
          /\ e.stage = "original"
          /\ ~(e.msg.outerOk /\ e.msg.hasPayload /\ e.msg.decryptOk)
          /\ inflight' = inflight \ {e}
    /\ UNCHANGED <<variant, wrapped, aliceFlags, aliceReg, aliceRun, pollVars,
                   bobVars>>

\* the original handleIncomingData, called in the catch of the wrapper's
\* JSON.parse, throws: the wrapper's outer catch logs the error and the
\* wrapper goes on to its last statement, which calls the original handler
OriginalThrowsInTry ==
    /\ AliceRunning
    /\ \E e \in inflight :
          /\ e.stage = "original"
          /\ ~e.msg.outerOk
          /\ inflight' = (inflight \ {e}) \cup
                            { [ msg |-> e.msg, stage |-> "originalAgain" ] }
    /\ UNCHANGED <<variant, wrapped, aliceFlags, aliceReg, aliceRun, pollVars,
                   bobVars>>

\* the call of the original handler in the wrapper's last statement, made
\* after the call in the try block threw, returns or throws
OriginalAgainEnds ==
    /\ AliceRunning
    /\ \E e \in inflight :
          /\ e.stage = "originalAgain"
          /\ inflight' = inflight \ {e}
    /\ UNCHANGED <<variant, wrapped, aliceFlags, aliceReg, aliceRun, pollVars,
                   bobVars>>

\* an announcement reaches Alice's registry
AliceAnnounced ==
    /\ AliceRunning
    /\ \E p \in {BobId, EveId}, hasData \in BOOLEAN :
          LET reg == AnnouncePeer(peerList, peerData, p, hasData, KeyOf(p))
          IN  /\ peerList' = reg.peerList
              /\ peerData' = reg.peerData
    /\ UNCHANGED <<variant, wrapped, inflight, aliceFlags, aliceRun, pollVars,
                   bobVars>>

\* how late a sleep inside a workflow wakes: on time, or after a stall as
\* long as the timeout
WorkflowLates(p) ==
    IF p.evals <= MaxOnTime THEN {0, p.timeoutMs} ELSE {p.timeoutMs}

\* KeyPresent that accepts every stored message
KeyPresentAlways(md) == TRUE

\* the negation of !testMessageData || !testMessageData.encryptPubKey
KeyPresent(md) == Truthy(md) /\ ~Falsy(Prop(md, "encryptPubKey"))

\* runTest from the return of pollUntil to its next await
AfterWait ==
    IF Falsy(bobPeerId)
    THEN /\ aliceErr' = [ kind |-> "BobNotIdentified" ]
         /\ alicePc' = "cleanup"
         /\ UNCHANGED <<aliceReg, aliceSent>>
    ELSE IF ~KeyPresent(testMessageData)
    THEN /\ aliceErr' = [ kind |-> "MissingKey" ]
         /\ alicePc' = "cleanup"
         /\ UNCHANGED <<aliceReg, aliceSent>>
    ELSE LET reg == BootstrapRunTest(peerList, peerData, bobPeerId,
                                     Prop(testMessageData, "encryptPubKey"))
         IN  /\ peerList' = reg.peerList
             /\ peerData' = reg.peerData
             /\ aliceSent' = Append(aliceSent,
                   [ to |-> bobPeerId,
                     message |-> JSONStringify(
                                    AcknowledgmentMessage(testMessageData)) ])
             /\ alicePc' = "sending"
             /\ aliceErr' = aliceErr

InitAlice ==
    /\ variant \in {1, 2}
    /\ alicePc = "starting"
    /\ alicePoll = NoPoll
    /\ bobPeerId = Null /\ testMessageReceived = FALSE
    /\ testMessageData = NullData
    /\ acknowledgmentSent = FALSE
    /\ peerList = <<>> /\ peerData = <<>>
    /\ wrapped = FALSE /\ inflight = {}
    /\ aliceSent = <<>> /\ aliceErr = NoError /\ aliceExit = -1
    /\ firstPinned = Null /\ answered = NullData
    /\ FrozenPoll /\ FrozenBob

\* start() throws before runTest is entered
AliceStartFails ==
    /\ alicePc = "starting"
    /\ alicePc' = "exited"
    /\ aliceErr' = [ kind |-> "StartError" ]
    /\ aliceExit' = 1
    /\ UNCHANGED <<variant, wrapped, inflight, aliceFlags, aliceReg, alicePoll,
                   acknowledgmentSent, aliceSent, pollVars, bobVars>>

\* await ipfsCoord.start() returns: the second variant installs the wrapper;
\* runTest resets the test state and pollUntil evaluates once and sleeps
AliceRunTest ==
    /\ alicePc = "starting"
    /\ wrapped' = (variant = 2)
    /\ testMessageReceived' = FALSE
    /\ testMessageData' = NullData
    /\ bobPeerId' = Null
    /\ alicePoll' = PollIterate(
                       PollUntil(500, 60000 * 5, "test message from Bob"),
                       FALSE, 0)
    /\ alicePc' = "wait"
    /\ UNCHANGED <<variant, inflight, firstPinned, answered, aliceReg,
                   acknowledgmentSent,
                   aliceSent, aliceErr, aliceExit, pollVars, bobVars>>

\* sleep(intervalMs) ends and pollUntil goes round its loop once; when it
\* returns or throws, runTest continues to its next await
AliceWakes ==
    /\ alicePc = "wait"
    /\ \E late \in WorkflowLates(alicePoll) :
          LET p == PollIterate(PollWake(alicePoll, late), testMessageReceived, 0)
          IN  /\ alicePoll' = p
              /\ answered' = IF p.pc = "returned" THEN testMessageData
                                                  ELSE answered
              /\ CASE p.pc = "sleep" ->
                        UNCHANGED <<alicePc, aliceErr, aliceReg, aliceSent>>
                   [] p.pc = "returned" -> AfterWait
                   [] p.pc = "thrown" ->
                        /\ aliceErr' = p.error
                        /\ alicePc' = "cleanup"
                        /\ UNCHANGED <<aliceReg, aliceSent>>
    /\ UNCHANGED <<variant, wrapped, inflight, bobPeerId, testMessageReceived,
                   testMessageData, firstPinned, acknowledgmentSent, aliceExit,
                   pollVars, bobVars>>

\* sendPrivateMessage resolves
AliceSendResolves ==
    /\ alicePc = "sending"
    /\ acknowledgmentSent' = TRUE
    /\ alicePc' = "linger"
    /\ UNCHANGED <<variant, wrapped, inflight, aliceFlags, aliceReg, alicePoll,
                   aliceSent, aliceErr, aliceExit, pollVars, bobVars>>

\* sendPrivateMessage throws
AliceSendRejects ==
    /\ alicePc = "sending"
    /\ aliceErr' = [ kind |-> "SendError" ]
    /\ alicePc' = "cleanup"
    /\ UNCHANGED <<variant, wrapped, inflight, aliceFlags, aliceReg, alicePoll,
                   acknowledgmentSent, aliceSent, aliceExit, pollVars, bobVars>>

\* sleep(2000) ends and ipfs.stop() is called
AliceLingerEnds ==
    /\ alicePc = "linger"
    /\ alicePc' = "stopping"
    /\ UNCHANGED <<variant, wrapped, inflight, aliceFlags, aliceReg, alicePoll,
                   acknowledgmentSent, aliceSent, aliceErr, aliceExit, pollVars,
                   bobVars>>

\* ipfs.stop() resolves: process.exit(0)
AliceStopResolves ==
    /\ alicePc = "stopping"
    /\ alicePc' = "exited"
    /\ aliceExit' = 0
    /\ UNCHANGED <<variant, wrapped, inflight, aliceFlags, aliceReg, alicePoll,
                   acknowledgmentSent, aliceSent, aliceErr, pollVars, bobVars>>

\* ipfs.stop() throws: the catch block calls ipfs.stop() again
AliceStopRejects ==
    /\ alicePc = "stopping"
    /\ aliceErr' = [ kind |-> "StopError" ]
    /\ alicePc' = "cleanup"
    /\ UNCHANGED <<variant, wrapped, inflight, aliceFlags, aliceReg, alicePoll,
                   acknowledgmentSent, aliceSent, aliceExit, pollVars, bobVars>>

\* the catch block's ipfs.stop() resolves or throws: process.exit(1)
AliceCleanupEnds ==
    /\ alicePc = "cleanup"
    /\ alicePc' = "exited"
    /\ aliceExit' = 1
    /\ UNCHANGED <<variant, wrapped, inflight, aliceFlags, aliceReg, alicePoll,
                   acknowledgmentSent, aliceSent, aliceErr, pollVars, bobVars>>

NextAlice ==
    \/ Deliver \/ WrapperReceive \/ WrapperResume \/ OriginalDelivers
    \/ OriginalDrops \/ OriginalThrowsInTry \/ OriginalAgainEnds
    \/ AliceAnnounced
    \/ AliceStartFails \/ AliceRunTest \/ AliceWakes
    \/ AliceSendResolves \/ AliceSendRejects \/ AliceLingerEnds
    \/ AliceStopResolves \/ AliceStopRejects \/ AliceCleanupEnds

SpecAlice == InitAlice /\ [][NextAlice]_vars

-----------------------------------------------------------------------------
(* Properties of the responder *)

\* the record of peer p in pd holds a key
HasKeyFor(pd, p) ==
    \E i \in 1..Len(pd) :
        pd[i].from = p /\ pd[i].hasData /\ ~Falsy(pd[i].encryptPubKey)

\* C2 as stated: for every correlation value Bob can generate, 0 included,
\* and every probe timestamp, the acknowledgment Alice sends carries
\* acknowledgment = true, receivedRandomNumber = that value and
\* originalTimestamp = that timestamp, and is addressed to the pinned sender.
C2_AcknowledgmentEcho ==
    \A i \in 1..Len(aliceSent) :
        LET a == JSONParse(aliceSent[i].message).value
        IN  /\ aliceSent[i].to = bobPeerId
            /\ a.acknowledgment = JTrue
            /\ a.receivedRandomNumber = answered.randomNumber
            /\ a.originalTimestamp = answered.timestamp

\* C6 as stated: once bobPeerId has been fixed from a first probe, no
\* message from another identity changes it or the addressee of the
\* acknowledgment, whenever in the run the first probe arrived.
C6_FirstProbePinning ==
    firstPinned # Null =>
        /\ bobPeerId \in {Null, firstPinned}
        /\ \A i \in 1..Len(aliceSent) : aliceSent[i].to = firstPinned

\* C7: when the test message runTest read after its wait has no
\* encryptPubKey (whatever the registry holds, so also when it holds no key
\* for the sender), runTest fails with the missing-key error,
\* sendPrivateMessage is never called, acknowledgmentSent stays false and
\* the process exits with status 1.
C7_MissingKeyFailure ==
    /\ (alicePoll.pc = "returned" /\ Falsy(Prop(answered, "encryptPubKey"))) =>
          /\ aliceErr.kind \in {"MissingKey", "BobNotIdentified"}
          /\ (~Falsy(bobPeerId) => aliceErr.kind = "MissingKey")
    /\ aliceErr.kind = "MissingKey" =>
          /\ aliceSent = <<>>
          /\ ~acknowledgmentSent
          /\ alicePc \in {"cleanup", "exited"}
          /\ alicePc = "exited" => aliceExit = 1

\* Alice exited with status 1 on a probe without a key, with no key for the
\* sender in the registry
C7_Witness ==
    /\ alicePc = "exited" /\ aliceExit = 1
    /\ aliceErr.kind = "MissingKey"
    /\ answered = TestMessage("482913", Undef)
    /\ bobPeerId = BobId
    /\ ~HasKeyFor(peerData, BobId)

\* what one application of bootstrap B to the registry must do for sender
\* from and key
MergeRule(B(_, _, _, _), pl, pd, from, key) ==
    LET r == B(pl, pd, from, key)
    IN  IF Len(FilterFrom(pd, from)) = 0
        THEN /\ r.peerData = Append(pd, [ from |-> from, hasData |-> TRUE,
                                          encryptPubKey |-> key ])
             /\ Includes(r.peerList, from)
        ELSE /\ Len(r.peerData) = Len(pd)
             /\ r.peerList = pl
             /\ \A i \in 1..Len(pd) :
                   IF pd[i].from = from /\ i = FirstIndex(pd, from)
                      /\ (~pd[i].hasData \/ Falsy(pd[i].encryptPubKey))
                   THEN r.peerData[i] = [ from |-> from, hasData |-> TRUE,
                                          encryptPubKey |-> key ]
                   ELSE r.peerData[i] = pd[i]

\* a step of a bootstrap path: records keep their place and their sender, a
\* stored key stays as it is, a changed or new record holds a key, and a
\* record is added only for a sender that had none
MergeStep ==
    /\ Len(peerData') \in {Len(peerData), Len(peerData) + 1}
    /\ \A i \in 1..Len(peerData) :
          /\ peerData'[i].from = peerData[i].from
          /\ (peerData[i].hasData /\ ~Falsy(peerData[i].encryptPubKey))
                => peerData'[i] = peerData[i]
          /\ peerData'[i] # peerData[i]
                => peerData'[i].hasData /\ ~Falsy(peerData'[i].encryptPubKey)
    /\ Len(peerData') = Len(peerData) + 1 =>
          /\ peerData'[Len(peerData')].hasData
          /\ ~Falsy(peerData'[Len(peerData')].encryptPubKey)
          /\ Len(FilterFrom(peerData, peerData'[Len(peerData')].from)) = 0

\* C8: in every bootstrap path (runTest, the second variant's handler, the
\* wrapper) a sender with no record gets exactly one new record seeded with
\* the embedded key, a record without a key gets the key merged in, a record
\* with a key keeps it also when the embedded key differs, and no path sets
\* a stored key to null or empty.
C8_MergeRule ==
    /\ [](\A from \in {BobId, EveId}, key \in {"'key1'", "'key2'"} :
             /\ MergeRule(BootstrapRunTest, peerList, peerData, from, key)
             /\ MergeRule(BootstrapHandler, peerList, peerData, from, key)
             /\ MergeRule(BootstrapWrapper, peerList, peerData, from, key))
    /\ [][AliceAnnounced \/ MergeStep]_vars
    /\ [][/\ aliceSent' # aliceSent => HasKeyFor(peerData', bobPeerId')
          /\ (variant = 2 /\ testMessageData' # testMessageData
              /\ KeyPresent(testMessageData'))
                => HasKeyFor(peerData', bobPeerId')]_vars

\* Bob's record holds key1 although Bob's accepted message embeds key2
C8_Witness ==
    /\ variant = 2
    /\ bobPeerId = BobId
    /\ testMessageData = TestMessage("0", "'key2'")
    /\ \E i \in 1..Len(peerData) :
          peerData[i] = [ from |-> BobId, hasData |-> TRUE,
                          encryptPubKey |-> "'key1'" ]
    /\ alicePc = "sending"

\* bootstrap G after bootstrap F, for the same sender and key, changes nothing
SecondIsNoOp(F(_, _, _, _), G(_, _, _, _), pl, pd, from, key) ==
    LET r == F(pl, pd, from, key)
    IN  G(r.peerList, r.peerData, from, key) = r

\* C9: applying the key bootstrap for the same sender and the same key a
\* second time, through the same path or another, leaves peerData and
\* peerList as they were after the first application.
C9_IdempotentBootstrap ==
    \A from \in {BobId, EveId}, key \in {"'key1'", "'key2'"} :
        /\ SecondIsNoOp(BootstrapRunTest, BootstrapRunTest, peerList, peerData, from, key)
        /\ SecondIsNoOp(BootstrapRunTest, BootstrapHandler, peerList, peerData, from, key)
        /\ SecondIsNoOp(BootstrapRunTest, BootstrapWrapper, peerList, peerData, from, key)
        /\ SecondIsNoOp(BootstrapHandler, BootstrapRunTest, peerList, peerData, from, key)
        /\ SecondIsNoOp(BootstrapHandler, BootstrapHandler, peerList, peerData, from, key)
        /\ SecondIsNoOp(BootstrapHandler, BootstrapWrapper, peerList, peerData, from, key)
        /\ SecondIsNoOp(BootstrapWrapper, BootstrapRunTest, peerList, peerData, from, key)
        /\ SecondIsNoOp(BootstrapWrapper, BootstrapHandler, peerList, peerData, from, key)
        /\ SecondIsNoOp(BootstrapWrapper, BootstrapWrapper, peerList, peerData, from, key)

\* in the second variant runTest has bootstrapped the sender and key that the
\* handler bootstrapped before it, and the registry holds that one record
C9_Witness ==
    /\ variant = 2
    /\ alicePc = "sending"
    /\ bobPeerId = EveId
    /\ answered = TestMessage("0", "'key2'")
    /\ peerData = << [ from |-> EveId, hasData |-> TRUE,
                       encryptPubKey |-> "'key2'" ] >>
    /\ peerList = << EveId >>

\* no identity twice in peerList, no two records of one identity in peerData
RegistryUnique ==
    /\ \A i, j \in 1..Len(peerList) : peerList[i] = peerList[j] => i = j
    /\ \A i, j \in 1..Len(peerData) :
          peerData[i].from = peerData[j].from => i = j

\* no record and no identity is removed
NothingRemoved ==
    /\ Len(peerList') >= Len(peerList)
    /\ \A i \in 1..Len(peerList) : peerList'[i] = peerList[i]
    /\ Len(peerData') >= Len(peerData)
    /\ \A i \in 1..Len(peerData) : peerData'[i].from = peerData[i].from

\* C10: after any sequence of announcements and inbound messages processed
\* by the wrapper, the handler and runTest, in any interleaving, peerData
\* holds at most one record per identity, peerList holds each identity at
\* most once, and no record or identity is ever removed.
C10_RegistryUniqueness == []RegistryUnique /\ [][NothingRemoved]_vars

\* two messages of one sender were inside the wrapper at once and the
\* registry holds records of both peers
C10_Witness ==
    /\ Len(peerData) = 2
    /\ Len(peerList) = 2
    /\ \E e1, e2 \in inflight :
          /\ e1 # e2
          /\ e1.msg.from = e2.msg.from
          /\ e1.stage = "original" /\ e2.stage = "original"
          /\ WrapperDetects(e1.msg.payload) /\ WrapperDetects(e2.msg.payload)

-----------------------------------------------------------------------------
(* Bob: the initiator (part_000: discovery by announcement only; part_001:
   direct connection first) *)

\* the values ALICE_MULTIADDR is configured with: the empty string, an
\* address without a /p2p/ component, an address that ends in Alice's id
Multiaddrs ==
    { <<>>,
      <<"ip4", "192.168.1.65", "tcp", "4001">>,
      <<"ip4", "192.168.1.65", "tcp", "4001", "p2p", AliceId>> }

\* ALICE_MULTIADDR.match(/\/p2p\/([^/]+)/): the component after the first
\* "p2p", null when there is none
P2pMatch(ma) ==
    IF \E i \in 1..(Len(ma) - 1) : ma[i] = "p2p"
    THEN LET first == CHOOSE i \in 1..(Len(ma) - 1) :
                          /\ ma[i] = "p2p"
                          /\ \A j \in 1..(i - 1) : ma[j] # "p2p"
         IN  ma[first + 1]
    ELSE Null

\* multiaddr(ALICE_MULTIADDR).getPeerId(): the value of the last "p2p"
\* component, null when there is none
GetPeerId(ma) ==
    IF \E i \in 1..(Len(ma) - 1) : ma[i] = "p2p"
    THEN LET last == CHOOSE i \in 1..(Len(ma) - 1) :
                         /\ ma[i] = "p2p"
                         /\ \A j \in (i + 1)..(Len(ma) - 1) : ma[j] # "p2p"
         IN  ma[last + 1]
    ELSE Null

\* alicePeerId after start() has read ALICE_MULTIADDR
ExtractedPeerId(v, ma) ==
    IF Len(ma) = 0 THEN Null
    ELSE IF v = "direct" THEN P2pMatch(ma) ELSE GetPeerId(ma)

\* the values of Math.floor(Math.random() * 1000000) the model draws
RandomNumbers == {"482913", "0"}

\* runTest's testMessage; only part_001 includes encryptPubKey
BobTestMessage(randomNumber) ==
    TestMessage(randomNumber,
                IF bobVariant = "direct" THEN KeyOf(BobId) ELSE Undef)

\* messageData.toLowerCase()
ToLowerCase(text) == IF text = "'ACK'" THEN "'ack'" ELSE text

\* text.includes('ack') || text.includes('acknowledgment')
IncludesAck(text) == text \in {"'ack'", "'acknowledgment'"}

\* isAcknowledgment
IsAcknowledgment(md) ==
    /\ Truthy(md)
    /\ \/ ~Falsy(Prop(md, "acknowledgment"))
       \/ ~Falsy(Prop(md, "ack"))
       \/ ~Falsy(Prop(md, "response"))
       \/ (md.type = "string" /\ IncludesAck(ToLowerCase(md.text)))

\* Alice's acknowledgment of the probe runTest handed to sendPrivateMessage
AckOfProbe ==
    IF bobSent = <<>> THEN {}
    ELSE { JSONStringify(AcknowledgmentMessage(
               JSONParse(bobSent[Len(bobSent)].message).value)) }

\* the decrypted payloads that reach Bob
BobPayloads == AckOfProbe \cup { NotJson("'ACK'"), NotJson("'hello'") }

bobFlags == <<alicePeerId, acknowledgmentReceived, acknowledgmentData,
              ackDuringSend>>
bobReg   == <<bobPeerList, bobPeerData>>
bobRun   == <<bobPc, bobPoll, bobSent, bobErr, bobExit, directFailed,
              listAtFailure, connSeen, bobCalls>>
bobConf  == <<bobVariant, ALICE_MULTIADDR>>

\* the node exists and the process has not exited
BobRunning == bobPc \notin {"off", "exited"}

\* a handler that accepts an acknowledgment from any sender
BobHandleAnySender(decryptedPayload, from) ==
    LET messageData == MessageData(decryptedPayload)
        accepted    == IsAcknowledgment(messageData)
    IN  /\ alicePeerId' = IF Falsy(alicePeerId) THEN from ELSE alicePeerId
        /\ acknowledgmentReceived' = (accepted \/ acknowledgmentReceived)
        /\ acknowledgmentData' = IF accepted THEN messageData
                                             ELSE acknowledgmentData
        /\ ackDuringSend' =
              \/ ackDuringSend
              \/ /\ accepted
                 /\ from = AliceId
                 /\ decryptedPayload \in AckOfProbe
                 /\ bobSent[Len(bobSent)].to = AliceId
                 /\ bobPc = "sending"

\* handlePrivateMessage(decryptedPayload, from)
BobHandlePrivateMessage(decryptedPayload, from) ==
    LET isFromAlice == IF ~Falsy(alicePeerId) THEN from = alicePeerId ELSE TRUE
        messageData == MessageData(decryptedPayload)
        accepted    == isFromAlice /\ IsAcknowledgment(messageData)
    IN  /\ alicePeerId' = IF isFromAlice /\ Falsy(alicePeerId) THEN from
                                                             ELSE alicePeerId
        /\ acknowledgmentReceived' = (accepted \/ acknowledgmentReceived)
        /\ acknowledgmentData' = IF accepted THEN messageData
                                             ELSE acknowledgmentData
        /\ ackDuringSend' =
              \/ ackDuringSend
              \/ /\ accepted
                 /\ from = AliceId
                 /\ decryptedPayload \in AckOfProbe
                 /\ bobSent[Len(bobSent)].to = AliceId
                 /\ bobPc = "sending"

\* a private message reaches Bob
BobDeliver ==
    /\ BobRunning
    /\ \E from \in {AliceId, EveId}, d \in BobPayloads :
          BobHandlePrivateMessage(d, from)
    /\ UNCHANGED <<bobConf, bobReg, connectedPeers, bobRun, pollVars, aliceVars>>

\* an announcement reaches Bob's registry
BobAnnounced ==
    /\ BobRunning
    /\ \E p \in {AliceId, EveId}, hasData \in BOOLEAN :
          LET reg == AnnouncePeer(bobPeerList, bobPeerData, p, hasData,
                                  KeyOf(p))
          IN  /\ bobPeerList' = reg.peerList
              /\ bobPeerData' = reg.peerData
    /\ UNCHANGED <<bobConf, bobFlags, connectedPeers, bobRun, pollVars,
                   aliceVars>>

\* a connection to a peer is established
BobPeerConnects ==
    /\ BobRunning
    /\ \E p \in {AliceId, EveId} :
          /\ p \notin connectedPeers
          /\ connectedPeers' = connectedPeers \cup {p}
    /\ UNCHANGED <<bobConf, bobFlags, bobReg, bobRun, pollVars, aliceVars>>

\* a connection is closed: getPeers() no longer lists the peer
BobPeerDisconnects ==
    /\ BobRunning
    /\ \E p \in connectedPeers :
          connectedPeers' = connectedPeers \ {p}
    /\ UNCHANGED <<bobConf, bobFlags, bobReg, bobRun, pollVars, aliceVars>>


\* the 5 minute timeouts of part_001 are 60 and 30 seconds in part_000
ListTimeoutMs == IF bobVariant = "direct" THEN 60000 * 5 ELSE 60000
AckTimeoutMs  == IF bobVariant = "direct" THEN 60000 * 5 ELSE 30000

\* the pollUntil call of each waiting phase of runTest
BobPollCall(phase) ==
    CASE phase = "dcVerify" -> PollUntil(500, 10000, "connection verification")
      [] phase = "dcData"   -> PollUntil(500, 60000 * 5,
                                         "Alice peer data from announcement")
      [] phase = "fbList"   -> PollUntil(2000, 60000 * 5, "Alice announcement")
      [] phase = "anAny"    -> PollUntil(2000, ListTimeoutMs, "Alice announcement")
      [] phase = "list"     -> PollUntil(2000, ListTimeoutMs, "Alice in peer list")
      [] phase = "data"     -> PollUntil(500, 10000, "Alice peer data verification")
      [] phase = "conn"     -> PollUntil(1000, 30000, "connection to Alice")
      [] phase = "waitAck"  -> PollUntil(500, AckTimeoutMs,
                                         "acknowledgment from Alice")

BobPollPhases ==
    {"dcVerify", "dcData", "fbList", "anAny", "list", "data", "conn", "waitAck"}

\* BobCondition whose peerData conditions are true without a record
BobConditionNoData(phase, apid) ==
    CASE phase \in {"dcVerify", "conn"} -> apid \in connectedPeers
      [] phase \in {"dcData", "data"}   -> TRUE
      [] phase \in {"fbList", "list"}   -> Includes(bobPeerList, apid)
      [] phase = "anAny"                -> Len(bobPeerList) > 0
      [] phase = "waitAck"              -> acknowledgmentReceived

\* BobCondition whose connection checks pass without looking at getPeers()
BobConditionNoConn(phase, apid) ==
    CASE phase \in {"dcVerify", "conn"} -> TRUE
      [] phase \in {"dcData", "data"}   -> Len(FilterFrom(bobPeerData, apid)) > 0
      [] phase \in {"fbList", "list"}   -> Includes(bobPeerList, apid)
      [] phase = "anAny"                -> Len(bobPeerList) > 0
      [] phase = "waitAck"              -> acknowledgmentReceived

\* the conditionFn of each waiting phase, for alicePeerId = apid
BobCondition(phase, apid) ==
    CASE phase \in {"dcVerify", "conn"} -> apid \in connectedPeers
      [] phase \in {"dcData", "data"}   -> Len(FilterFrom(bobPeerData, apid)) > 0
      [] phase \in {"fbList", "list"}   -> Includes(bobPeerList, apid)
      [] phase = "anAny"                -> Len(bobPeerList) > 0
      [] phase = "waitAck"              -> acknowledgmentReceived

\* runTest rests at pc, awaiting a timer or a collaborator
BobRest(pc, p, apid) ==
    [ pc |-> pc, poll |-> p, alicePeerId |-> apid, err |-> NoError,
      sent |-> <<>> ]

\* an error reaches runTest's catch block, which awaits ipfs.stop()
BobFail(error, apid) ==
    [ pc |-> "cleanup", poll |-> NoPoll, alicePeerId |-> apid, err |-> error,
      sent |-> <<>> ]

\* the test message is composed and handed to sendPrivateMessage
BobSend(apid, randomNumber) ==
    [ pc |-> "sending", poll |-> NoPoll, alicePeerId |-> apid, err |-> NoError,
      sent |-> << [ to |-> apid,
                    message |-> JSONStringify(BobTestMessage(randomNumber)) ] >> ]

RECURSIVE BobEnter(_, _, _)
RECURSIVE BobAfter(_, _, _)

\* runTest calls the pollUntil of a phase: the first evaluation is made at
\* once, and runTest goes on without a pause when it is true
BobEnter(phase, apid, randomNumber) ==
    LET p == PollIterate(BobPollCall(phase), BobCondition(phase, apid), 0)
    IN  IF p.pc = "returned" THEN BobAfter(phase, apid, randomNumber)
                             ELSE BobRest(phase, p, apid)

\* what runTest does when the pollUntil of a phase has returned
BobAfter(phase, apid, randomNumber) ==
    CASE phase = "dcVerify" -> BobEnter("dcData", apid, randomNumber)
      [] phase = "dcData"   -> BobSend(apid, randomNumber)
      [] phase = "fbList"   -> BobEnter("data", apid, randomNumber)
      [] phase = "anAny"    ->
            IF Len(bobPeerList) > 0
            THEN IF bobVariant = "direct"
                 THEN BobEnter("data", bobPeerList[1], randomNumber)
                 ELSE BobRest("refresh", NoPoll, bobPeerList[1])
            ELSE BobFail([ kind |-> "DiscoverFailed" ], apid)
      [] phase = "list"     ->
            IF bobVariant = "direct"
            THEN BobEnter("data", apid, randomNumber)
            ELSE BobRest("refresh", NoPoll, apid)
      [] phase = "data"     -> BobRest("refresh", NoPoll, apid)
      [] phase = "conn"     -> BobSend(apid, randomNumber)
      [] phase = "waitAck"  -> BobRest("stopping", NoPoll, apid)

\* the catch of the direct-connection block takes the first peer of
\* peerList as its target
BobCatchDirectFirstWins(error, apid, randomNumber) ==
    BobEnter("anAny", apid, randomNumber)

\* the catch of the direct-connection block calls connectToPeer again
BobCatchDirectRetry(error, apid, randomNumber) ==
    BobRest("connecting", NoPoll, apid)

\* the catch of the direct-connection block ends the run
BobCatchDirectFatal(error, apid, randomNumber) == BobFail(error, apid)

\* the catch of the direct-connection block: fall back to discovery by
\* announcement
BobCatchDirect(error, apid, randomNumber) ==
    BobEnter("fbList", apid, randomNumber)

\* BobThrown that goes on to the send after a timeout outside the
\* direct-connection block
BobThrownGoesOn(phase, error, apid, randomNumber) ==
    IF phase \in {"dcVerify", "dcData"}
    THEN BobCatchDirect(error, apid, randomNumber)
    ELSE BobSend(apid, randomNumber)

\* what runTest does when the pollUntil of a phase has thrown
BobThrown(phase, error, apid, randomNumber) ==
    IF phase \in {"dcVerify", "dcData"}
    THEN BobCatchDirect(error, apid, randomNumber)
    ELSE BobFail(error, apid)

\* a refresh whose exception reaches the catch block of runTest
BobAfterRefreshFatal(threw, apid, randomNumber) ==
    IF threw THEN BobFail([ kind |-> "RefreshError" ], apid)
             ELSE BobEnter("conn", apid, randomNumber)

\* runTest after the try/catch around refreshPeerConnections(), which threw
\* or not: the poll for the connection begins
BobAfterRefresh(threw, apid, randomNumber) ==
    BobEnter("conn", apid, randomNumber)

\* runTest moves to the resting point r
BobMoves(r) ==
    /\ bobPc' = r.pc
    /\ bobPoll' = r.poll
    /\ alicePeerId' = r.alicePeerId
    /\ bobErr' = r.err
    /\ bobSent' = bobSent \o r.sent

InitBob ==
    /\ bobVariant \in {"announce", "direct"}
    /\ ALICE_MULTIADDR \in Multiaddrs
    /\ bobPc = "starting"
    /\ bobPoll = NoPoll
    /\ alicePeerId = ExtractedPeerId(bobVariant, ALICE_MULTIADDR)
    /\ acknowledgmentReceived = FALSE /\ acknowledgmentData = NullData
    /\ bobPeerList = <<>> /\ bobPeerData = <<>> /\ connectedPeers = {}
    /\ bobSent = <<>> /\ bobErr = NoError /\ bobExit = -1
    /\ directFailed = FALSE /\ listAtFailure = -1 /\ ackDuringSend = FALSE
    /\ connSeen = {} /\ bobCalls = <<>>
    /\ FrozenPoll /\ FrozenAlice

\* ipfsCoord.start() throws: start() logs and exits with status 1
BobStartFails ==
    /\ bobPc = "starting"
    /\ bobPc' = "exited"
    /\ bobErr' = [ kind |-> "StartError" ]
    /\ bobExit' = 1
    /\ UNCHANGED <<bobConf, bobFlags, bobReg, connectedPeers, bobPoll, bobSent,
                   directFailed, listAtFailure, connSeen, bobCalls, pollVars,
                   aliceVars>>

\* await ipfsCoord.start() returns and runTest begins
BobRunTest ==
    /\ bobPc = "starting"
    /\ \E randomNumber \in RandomNumbers :
          BobMoves(
            IF bobVariant = "direct" /\ Len(ALICE_MULTIADDR) > 0
               /\ ~Falsy(alicePeerId)
            THEN BobRest("connecting", NoPoll, alicePeerId)
            ELSE IF Falsy(alicePeerId)
                 THEN BobEnter("anAny", alicePeerId, randomNumber)
                 ELSE BobEnter("list", alicePeerId, randomNumber))
    /\ UNCHANGED <<bobConf, acknowledgmentReceived, acknowledgmentData,
                   ackDuringSend, bobReg, connectedPeers, bobExit, directFailed,
                   listAtFailure, connSeen, bobCalls,
                   pollVars, aliceVars>>

\* connectToPeer resolves: with success, runTest sleeps 1000 ms; without, it
\* throws into the catch of the direct-connection block
BobConnectResolves ==
    /\ bobPc = "connecting"
    /\ \E success \in BOOLEAN, randomNumber \in RandomNumbers :
          /\ BobMoves(IF success
                      THEN BobRest("settle", NoPoll, alicePeerId)
                      ELSE BobCatchDirect([ kind |-> "ConnectFailed" ],
                                          alicePeerId, randomNumber))
          /\ directFailed' = ~success
          /\ listAtFailure' = IF success THEN -1 ELSE Len(bobPeerList)
          /\ bobCalls' = Append(bobCalls, [ call |-> "connectToPeer",
                                            ok |-> success ])
    /\ UNCHANGED <<bobConf, acknowledgmentReceived, acknowledgmentData,
                   ackDuringSend, connSeen, bobReg, connectedPeers, bobExit, pollVars,
                   aliceVars>>

\* connectToPeer throws
BobConnectRejects ==
    /\ bobPc = "connecting"
    /\ \E randomNumber \in RandomNumbers :
          BobMoves(BobCatchDirect([ kind |-> "ConnectRejected" ], alicePeerId,
                                  randomNumber))
    /\ directFailed' = TRUE
    /\ listAtFailure' = Len(bobPeerList)
    /\ bobCalls' = Append(bobCalls, [ call |-> "connectToPeer", ok |-> FALSE ])
    /\ UNCHANGED <<bobConf, acknowledgmentReceived, acknowledgmentData,
                   ackDuringSend, connSeen, bobReg, connectedPeers, bobExit, pollVars,
                   aliceVars>>

\* sleep(1000) ends and getPeers() answers
BobSettled ==
    /\ bobPc = "settle"
    /\ \E randomNumber \in RandomNumbers :
          BobMoves(IF alicePeerId \in connectedPeers
                   THEN BobEnter("dcData", alicePeerId, randomNumber)
                   ELSE BobEnter("dcVerify", alicePeerId, randomNumber))
    /\ connSeen' = IF alicePeerId \in connectedPeers
                   THEN connSeen \cup {alicePeerId} ELSE connSeen
    /\ UNCHANGED <<bobConf, acknowledgmentReceived, acknowledgmentData,
                   ackDuringSend, bobReg, connectedPeers, bobExit, directFailed,
                   listAtFailure, bobCalls,
                   pollVars, aliceVars>>

\* a sleep of pollUntil ends: the loop test and conditionFn run
BobWakes ==
    /\ bobPc \in BobPollPhases
    /\ bobPoll.pc = "sleep"
    /\ \E late \in WorkflowLates(bobPoll), randomNumber \in RandomNumbers :
          LET p == PollIterate(PollWake(bobPoll, late),
                               BobCondition(bobPc, alicePeerId), 0)
          IN  /\ connSeen' = IF bobPc \in {"dcVerify", "conn"}
                                  /\ p.pc = "returned"
                               THEN connSeen \cup {alicePeerId} ELSE connSeen
              /\ BobMoves(CASE p.pc = "returned" ->
                                 BobAfter(bobPc, alicePeerId, randomNumber)
                            [] p.pc = "thrown" ->
                                 BobThrown(bobPc, p.error, alicePeerId,
                                           randomNumber)
                            [] OTHER -> BobRest(bobPc, p, alicePeerId))
    /\ UNCHANGED <<bobConf, acknowledgmentReceived, acknowledgmentData,
                   ackDuringSend, bobReg, connectedPeers, bobExit, directFailed,
                   listAtFailure, bobCalls,
                   pollVars, aliceVars>>

\* refreshPeerConnections() resolves
BobRefreshResolves ==
    /\ bobPc = "refresh"
    /\ \E randomNumber \in RandomNumbers :
          BobMoves(BobAfterRefresh(FALSE, alicePeerId, randomNumber))
    /\ connSeen' = IF BobCondition("conn", alicePeerId)
                   THEN connSeen \cup {alicePeerId} ELSE connSeen
    /\ bobCalls' = Append(bobCalls, [ call |-> "refreshPeerConnections",
                                      ok |-> TRUE ])
    /\ UNCHANGED <<bobConf, acknowledgmentReceived, acknowledgmentData,
                   ackDuringSend, bobReg, connectedPeers, bobExit, directFailed,
                   listAtFailure,
                   pollVars, aliceVars>>

\* refreshPeerConnections() throws: the error is logged
BobRefreshRejects ==
    /\ bobPc = "refresh"
    /\ \E randomNumber \in RandomNumbers :
          BobMoves(BobAfterRefresh(TRUE, alicePeerId, randomNumber))
    /\ connSeen' = IF BobCondition("conn", alicePeerId)
                   THEN connSeen \cup {alicePeerId} ELSE connSeen
    /\ bobCalls' = Append(bobCalls, [ call |-> "refreshPeerConnections",
                                      ok |-> FALSE ])
    /\ UNCHANGED <<bobConf, acknowledgmentReceived, acknowledgmentData,
                   ackDuringSend, bobReg, connectedPeers, bobExit, directFailed,
                   listAtFailure,
                   pollVars, aliceVars>>


\* sendPrivateMessage resolves: runTest resets the acknowledgment state and
\* pollUntil evaluates once and sleeps
BobSendResolves ==
    /\ bobPc = "sending"
    /\ acknowledgmentReceived' = FALSE
    /\ acknowledgmentData' = NullData
    /\ bobPoll' = PollIterate(BobPollCall("waitAck"), FALSE, 0)
    /\ bobPc' = "waitAck"
    /\ UNCHANGED <<bobConf, alicePeerId, ackDuringSend, bobReg, connectedPeers,
                   bobSent, bobErr, bobExit, directFailed, listAtFailure, connSeen, bobCalls, pollVars,
                   aliceVars>>

\* a failed send after which runTest waits for the acknowledgment all the same
BobSendRejectsGoesOn ==
    /\ bobPc = "sending"
    /\ BobMoves([ pc |-> "waitAck",
                  poll |-> PollIterate(BobPollCall("waitAck"), FALSE, 0),
                  alicePeerId |-> alicePeerId,
                  err |-> [ kind |-> "SendError" ], sent |-> <<>> ])
    /\ UNCHANGED <<bobConf, acknowledgmentReceived, acknowledgmentData,
                   ackDuringSend, bobReg, connectedPeers, bobExit, directFailed,
                   listAtFailure, connSeen, bobCalls,
                   pollVars, aliceVars>>

\* sendPrivateMessage throws
BobSendRejects ==
    /\ bobPc = "sending"
    /\ BobMoves(BobFail([ kind |-> "SendError" ], alicePeerId))
    /\ UNCHANGED <<bobConf, acknowledgmentReceived, acknowledgmentData,
                   ackDuringSend, bobReg, connectedPeers, bobExit, directFailed,
                   listAtFailure, connSeen, bobCalls,
                   pollVars, aliceVars>>

\* a shutdown that reports failure after the node has stopped
BobStopExitsOne ==
    /\ bobPc = "stopping"
    /\ bobPc' = "exited"
    /\ bobExit' = 1
    /\ UNCHANGED <<bobConf, bobFlags, bobReg, connectedPeers, bobPoll, bobSent,
                   bobErr, directFailed, listAtFailure, connSeen, bobCalls, pollVars,
                   aliceVars>>

\* ipfs.stop() resolves: process.exit(0)
BobStopResolves ==
    /\ bobPc = "stopping"
    /\ bobPc' = "exited"
    /\ bobExit' = 0
    /\ UNCHANGED <<bobConf, bobFlags, bobReg, connectedPeers, bobPoll, bobSent,
                   bobErr, directFailed, listAtFailure, connSeen, bobCalls, pollVars,
                   aliceVars>>

\* ipfs.stop() throws: the catch block calls ipfs.stop() again
BobStopRejects ==
    /\ bobPc = "stopping"
    /\ BobMoves(BobFail([ kind |-> "StopError" ], alicePeerId))
    /\ UNCHANGED <<bobConf, acknowledgmentReceived, acknowledgmentData,
                   ackDuringSend, bobReg, connectedPeers, bobExit, directFailed,
                   listAtFailure, connSeen, bobCalls,
                   pollVars, aliceVars>>

\* a catch block in which an error of ipfs.stop() escapes, so that
\* process.exit(1) is never reached
BobCleanupThrowsOn ==
    /\ bobPc = "cleanup"
    /\ bobPc' = "hung"
    /\ bobErr' = [ kind |-> "CleanupError" ]
    /\ UNCHANGED <<bobConf, bobFlags, bobReg, connectedPeers, bobPoll, bobSent,
                   bobExit, directFailed, listAtFailure, connSeen, bobCalls,
                   pollVars, aliceVars>>

\* the catch block's ipfs.stop() resolves or throws: process.exit(1)
BobCleanupEnds ==
    /\ bobPc = "cleanup"
    /\ bobPc' = "exited"
    /\ bobExit' = 1
    /\ UNCHANGED <<bobConf, bobFlags, bobReg, connectedPeers, bobPoll, bobSent,
                   bobErr, directFailed, listAtFailure, connSeen, bobCalls, pollVars,
                   aliceVars>>

NextBob ==
    \/ BobDeliver
    \/ BobAnnounced
    \/ BobPeerConnects
    \/ BobPeerDisconnects
    \/ BobStartFails
    \/ BobRunTest
    \/ BobConnectResolves
    \/ BobConnectRejects
    \/ BobSettled
    \/ BobWakes
    \/ BobRefreshResolves
    \/ BobRefreshRejects
    \/ BobSendResolves
    \/ BobSendRejects
    \/ BobStopResolves
    \/ BobStopRejects
    \/ BobCleanupEnds

SpecBob == InitBob /\ [][NextBob]_vars

-----------------------------------------------------------------------------
(* Properties of the initiator *)

\* C1 as stated, for the handler running while runTest awaits
\* sendPrivateMessage: when Bob's probe has gone to Alice and Alice's
\* acknowledgment of it has reached Bob's handlePrivateMessage, Bob's wait on
\* acknowledgmentReceived does not end in its timeout.
C1_RoundTripLiveness ==
    ackDuringSend =>
        bobErr # TimeoutError("acknowledgment from Alice", AckTimeoutMs)

\* after a failed direct connection: the failure is not the error that ends
\* the run, and runTest is in the discovery by announcement or past it
AfterDirectFailure ==
    directFailed =>
        /\ bobVariant = "direct"
        /\ bobErr.kind \notin {"ConnectFailed", "ConnectRejected"}
        /\ bobPc \notin {"starting", "connecting", "settle", "dcVerify", "dcData",
                         "anAny", "list"}
        /\ bobPc = "fbList" =>
              /\ bobPoll.description = "Alice announcement"
              /\ bobPoll.pc = "sleep"
              /\ bobPoll.evals >= 1
              /\ bobExit = -1

\* runTest leaves the discovery by announcement, other than by its timeout
LeavesDiscovery ==
    /\ directFailed'
    /\ bobPc \in {"connecting", "fbList"}
    /\ bobPc' \notin {"connecting", "fbList", "cleanup"}

\* C5: in the direct-connect Bob, after connectToPeer has thrown or returned
\* success = false runTest does not end the process: it goes on with
\* discovery by announcement, polling peerList for alicePeerId, and goes
\* past that discovery only with alicePeerId in peerList.
C5_DirectConnectNotFatal ==
    /\ []AfterDirectFailure
    /\ [][LeavesDiscovery => Includes(bobPeerList, alicePeerId)]_vars

\* after a failed direct connection Bob found Alice by announcement, sent
\* the probe, received the acknowledgment and exited with status 0
C5_Witness ==
    /\ directFailed
    /\ bobPc = "exited" /\ bobExit = 0
    /\ alicePeerId = AliceId
    /\ Len(bobSent) = 1 /\ bobSent[1].to = AliceId
    /\ acknowledgmentReceived
    /\ acknowledgmentData = AcknowledgmentMessage(BobTestMessage("482913"))


\* the direct connection attempt failed and since then an identity has
\* appeared in peerList
AppearedSinceFailure ==
    directFailed /\ Len(bobPeerList) > listAtFailure

\* C11 as stated: after a failed direct connection the first identity that
\* then appears in peerList, whichever it is, is the target the probe is
\* sent to.
C11_AsStated ==
    (AppearedSinceFailure /\ bobSent # <<>>) =>
        bobSent[1].to = bobPeerList[listAtFailure + 1]

\* C11 amended: after a failed direct connection alicePeerId keeps the value
\* it had when connectToPeer was called; runTest leaves the discovery only
\* with that identity in peerList, whichever identity appeared first, and
\* the probe is sent to it.
C11_FallbackTarget ==
    [][directFailed' =>
          /\ alicePeerId' = alicePeerId
          /\ ~Falsy(alicePeerId)
          /\ LeavesDiscovery => Includes(bobPeerList, alicePeerId)
          /\ bobSent' # bobSent => bobSent'[Len(bobSent')].to = alicePeerId]_vars

\* after the failure Eve appeared first in peerList and the probe went to
\* Alice, the identity of the configured address
C11_Witness ==
    /\ directFailed
    /\ listAtFailure = 0
    /\ Len(bobPeerList) = 2 /\ bobPeerList[1] = EveId
    /\ alicePeerId = AliceId
    /\ Len(bobSent) = 1 /\ bobSent[1].to = AliceId


DirectSucceeded == bobPc \in {"settle", "dcVerify", "dcData"}

-----------------------------------------------------------------------------
(* Either role: a run of Alice or a run of Bob *)

InitRoles == InitAlice \/ InitBob

NextRoles == NextAlice \/ NextBob

SpecRoles == InitRoles /\ [][NextRoles]_vars

\* Bob's runTest leaves a pollUntil whose conditionFn is false: it has thrown
BobPollThrew ==
    /\ bobPc \in BobPollPhases
    /\ bobPc' # bobPc
    /\ ~BobCondition(bobPc, alicePeerId)

\* Alice's runTest leaves its pollUntil with testMessageReceived false
AlicePollThrew ==
    /\ alicePc = "wait"
    /\ alicePc' # alicePc
    /\ ~testMessageReceived

\* Bob's runTest is in its catch block with the timeout as the error, and
\* nothing was sent in this step
BobAborts ==
    /\ bobPc' = "cleanup"
    /\ bobErr' = TimeoutError(bobPoll.description, bobPoll.timeoutMs)
    /\ bobSent' = bobSent

AliceAborts ==
    /\ alicePc' = "cleanup"
    /\ aliceErr' = TimeoutError(alicePoll.description, alicePoll.timeoutMs)
    /\ aliceSent' = aliceSent

\* from the catch block the only step of the workflow is the exit with
\* status 1, and nothing follows the exit
AbortEndsRun ==
    /\ (bobPc = "cleanup" /\ bobPc' # bobPc) => (bobPc' = "exited" /\ bobExit' = 1)
    /\ (alicePc = "cleanup" /\ alicePc' # alicePc)
          => (alicePc' = "exited" /\ aliceExit' = 1)
    /\ bobPc \in {"cleanup", "exited"} => bobSent' = bobSent
    /\ alicePc \in {"cleanup", "exited"} => aliceSent' = aliceSent
    /\ bobPc = "exited" => UNCHANGED <<bobPc, bobExit, bobErr>>
    /\ alicePc = "exited" => UNCHANGED <<alicePc, aliceExit, aliceErr>>

\* a timeout is the recorded error only in the catch block or after the
\* exit with status 1
TimeoutIsFatal ==
    /\ bobErr.kind = "Timeout" =>
          /\ bobPc \in {"cleanup", "exited"}
          /\ bobPc = "exited" => bobExit = 1
    /\ aliceErr.kind = "Timeout" =>
          /\ alicePc \in {"cleanup", "exited"}
          /\ alicePc = "exited" => aliceExit = 1

\* C13 as stated: a timeout of any pollUntil call in either role aborts the
\* workflow: no later step of the workflow runs, ipfs.stop() is attempted
\* and the process ends with status 1.
C13_AsStated ==
    [][/\ BobPollThrew => BobAborts
       /\ AlicePollThrew => AliceAborts
       /\ AbortEndsRun]_vars

\* C13 amended: a timeout of a pollUntil call aborts the workflow (catch
\* block, ipfs.stop(), exit status 1, no later step), in both roles, except
\* for the two pollUntil calls inside the direct-connection block of
\* part_001, whose timeout starts the discovery by announcement.
C13_TimeoutPropagation ==
    /\ []TimeoutIsFatal
    /\ [][/\ (BobPollThrew /\ bobPc \notin {"dcVerify", "dcData"}) => BobAborts
          /\ (BobPollThrew /\ bobPc \in {"dcVerify", "dcData"}) =>
                /\ bobPc' \in {"fbList", "data", "refresh"}
                /\ bobErr' = NoError
                /\ bobSent' = bobSent
          /\ AlicePollThrew => AliceAborts
          /\ AbortEndsRun]_vars

\* the direct connection succeeded, a poll of the direct-connection block
\* timed out, and the timeout of the discovery that followed ended the run
C13_Witness ==
    /\ bobVariant = "direct"
    /\ Len(ALICE_MULTIADDR) > 0
    /\ ~directFailed
    /\ bobErr = TimeoutError("Alice announcement", 60000 * 5)
    /\ bobPc = "exited" /\ bobExit = 1
    /\ bobSent = <<>>

-----------------------------------------------------------------------------
(* Further properties of the responder *)

\* C14 as stated: for an inbound message, after any sequence of inbound
\* messages, the key bootstrap through the handleIncomingData wrapper and
\* the key bootstrap through handlePrivateMessage end in the same registry:
\* the same peerData records, the same keys, the same peerList.
C14_PathConvergence ==
    variant = 2 =>
        \A m \in AliceMessages :
            (m.outerOk /\ m.hasPayload /\ m.decryptOk)
                => WrapperRegistry(m) = HandlerRegistry(m.payload, m.from)

-----------------------------------------------------------------------------
(* Further properties of the initiator *)

\* a step that changes nothing but what handlePrivateMessage writes
BobHandlerStep == UNCHANGED <<bobConf, bobReg, connectedPeers, bobRun>>

\* C15 as stated: Bob's handler sets acknowledgmentReceived and
\* acknowledgmentData only for a message whose sender is the resolved
\* alicePeerId and whose payload carries an acknowledgment marker; a message
\* from another sender, or without the marker, leaves
\* acknowledgmentReceived, acknowledgmentData and alicePeerId unchanged.
C15_InitiatorClassification ==
    [][\A from \in {AliceId, EveId}, d \in BobPayloads :
          (BobHandlerStep /\ BobHandlePrivateMessage(d, from)) =>
              IF from = alicePeerId /\ IsAcknowledgment(MessageData(d))
              THEN /\ acknowledgmentReceived'
                   /\ acknowledgmentData' = MessageData(d)
                   /\ alicePeerId' = alicePeerId
              ELSE UNCHANGED <<alicePeerId, acknowledgmentReceived,
                               acknowledgmentData>>]_vars


\* pollUntil evaluates () => acknowledgmentReceived to true: a wake of the
\* acknowledgment wait with the flag set that does not throw
BobObservesAck ==
    /\ bobPc = "waitAck" /\ acknowledgmentReceived
    /\ <<bobPc, bobPoll>>' # <<bobPc, bobPoll>>
    /\ bobErr' = NoError

\* ipfs.stop() returns: the step leaves "stopping" without a StopError
BobStopReturns ==
    bobPc = "stopping" /\ bobPc' # "stopping" /\ bobErr' = bobErr

AliceStopReturns ==
    alicePc = "stopping" /\ alicePc' # "stopping" /\ aliceErr' = aliceErr

\* C16: once Bob's wait has observed the acknowledgment, Bob calls
\* ipfs.stop() and, when it returns, exits with status 0; Alice, once
\* sendPrivateMessage has resolved and acknowledgmentSent is set, sleeps,
\* calls ipfs.stop() and, when it returns, exits with status 0.  Neither
\* process exits with status 0 on any other path.
C16_TestCompletion ==
    /\ [](bobExit = 0 => bobPc = "exited" /\ bobErr = NoError)
    /\ [](aliceExit = 0 => alicePc = "exited" /\ acknowledgmentSent)
    /\ [][/\ BobObservesAck => bobPc' = "stopping"
          /\ BobStopReturns => bobPc' = "exited" /\ bobExit' = 0
          /\ bobExit' = 0 /\ bobExit # 0 => bobPc = "stopping"
          /\ bobPc' = "stopping" /\ bobPc # "stopping" => BobObservesAck
          /\ acknowledgmentSent' /\ ~acknowledgmentSent => alicePc' = "linger"
          /\ alicePc = "linger" /\ alicePc' # "linger" => alicePc' = "stopping"
          /\ AliceStopReturns => alicePc' = "exited" /\ aliceExit' = 0
          /\ alicePc' = "stopping" /\ alicePc # "stopping" => acknowledgmentSent
       ]_vars

\* both completions happen: Bob has exited with status 0 after an
\* acknowledgment, or Alice has after sending one
C16_Witness ==
    \/ bobExit = 0 /\ acknowledgmentReceived /\ bobSent # <<>>
    \/ aliceExit = 0 /\ acknowledgmentSent /\ aliceSent # <<>>


-----------------------------------------------------------------------------
(* Polling and message handling in one process *)

\* runTest is inside sleep(intervalMs) of its wait for the test message
AliceSuspended == alicePc = "wait" /\ alicePoll.pc = "sleep"

\* what handlePrivateMessage writes of the test state
AliceHandlerState == <<bobPeerId, testMessageReceived, testMessageData>>

\* some step of message handling can run
AliceHandles ==
    Deliver \/ WrapperReceive \/ WrapperResume \/ OriginalDelivers
        \/ OriginalDrops

\* C17: while Alice's pollUntil is suspended between two evaluations a
\* private message can be handled, and the handler's step neither moves
\* pollUntil nor is moved by it; a flag set during the suspension stays set,
\* and the next evaluation of the predicate reads it and makes pollUntil
\* return, after which runTest leaves its wait.
C17_CooperativePolling ==
    /\ [](AliceSuspended => ENABLED AliceHandles)
    /\ [][AliceSuspended =>
            /\ AliceHandlerState' # AliceHandlerState =>
                   alicePoll' = alicePoll /\ alicePc' = alicePc
            /\ testMessageReceived => testMessageReceived'
            /\ alicePoll' # alicePoll =>
                   /\ AliceHandlerState' = AliceHandlerState
                   /\ alicePoll'.evals = alicePoll.evals + 1 =>
                         /\ alicePoll'.seen =
                               (IF testMessageReceived THEN "true" ELSE "false")
                         /\ alicePoll'.pc =
                               (IF testMessageReceived THEN "returned"
                                                       ELSE "sleep")
                         /\ testMessageReceived <=> alicePc' # "wait"
         ]_vars

\* pollUntil has returned on an evaluation after its first: the flag was
\* clear when the wait began and a handler set it during a suspension
C17_Witness ==
    /\ alicePoll.pc = "returned" /\ alicePoll.evals >= 2
    /\ testMessageReceived /\ alicePc # "wait"


-----------------------------------------------------------------------------
(* Discovery and the conditions of the send *)

\* ALICE_MULTIADDR names no peer: no target is known before the run
NoTargetGiven == Falsy(ExtractedPeerId(bobVariant, ALICE_MULTIADDR))

\* C18 as stated: when no target identity is known a priori, the target Bob
\* resolves, and sends its probe to, is the first identity of the registry's
\* list, peerList[0], whatever private messages arrive before or during the
\* discovery poll.
C18_FirstWinsDiscovery ==
    (NoTargetGiven /\ bobSent # <<>>) =>
        /\ Len(bobPeerList) > 0
        /\ bobSent[1].to = bobPeerList[1]


\* C19: on every path of Bob's runTest the probe is handed to
\* sendPrivateMessage only after a check of runTest has found its addressee,
\* alicePeerId, among the peers getPeers() returned; what a check records as
\* found was in that set when the check ran.
C19_ConnectedBeforeSend ==
    /\ [](\A i \in 1..Len(bobSent) : bobSent[i].to \in connSeen)
    /\ [][/\ bobSent' # bobSent =>
                /\ bobSent'[Len(bobSent')].to = alicePeerId'
                /\ alicePeerId' \in connSeen'
          /\ \A p \in connSeen' \ connSeen :
                p = alicePeerId /\ p \in connectedPeers
       ]_vars

\* the probe has been sent on the fallback path after a failed direct
\* connection, to a peer a check had found connected
C19_Witness ==
    /\ bobPc = "sending" /\ directFailed
    /\ bobSent # <<>> /\ bobSent[1].to \in connSeen


\* the registry holds a record of peer p whose data is not empty
HasDataFor(pd, p) ==
    \E i \in 1..Len(pd) : pd[i].from = p /\ pd[i].hasData

\* C20 as stated: in both variants of Bob the probe is handed to
\* sendPrivateMessage only when the registry holds a record of alicePeerId
\* whose data is not empty; a record without data does not let runTest reach
\* the send.
C20_AddressableBeforeSend ==
    [][bobSent' # bobSent => HasDataFor(bobPeerData, alicePeerId')]_vars


-----------------------------------------------------------------------------
(* Calls of the initiator and their failures *)

\* the step in which the pending call of refreshPeerConnections settles
RefreshSettles ==
    /\ Len(bobCalls') = Len(bobCalls) + 1
    /\ bobCalls'[Len(bobCalls')].call = "refreshPeerConnections"

\* C21: an exception of refreshPeerConnections does not abort Bob's
\* workflow: whether the call resolved or threw, runTest goes on without an
\* error to the poll 'connection to Alice', whose first evaluation either
\* finds alicePeerId connected (the probe is sent) or suspends; and the
\* wait for the connection ends only in the send, when an evaluation found
\* the peer connected, or in that poll's timeout.
C21_RefreshNonFatal ==
    [][/\ RefreshSettles =>
            /\ bobErr' = NoError
            /\ bobPc' = IF alicePeerId \in connectedPeers THEN "sending"
                                                          ELSE "conn"
            /\ bobPc' = "conn" =>
                  /\ bobPoll'.description = "connection to Alice"
                  /\ bobPoll'.evals = 1 /\ bobPoll'.pc = "sleep"
       /\ bobPc = "conn" /\ bobPc' # "conn" =>
            \/ /\ bobPc' = "sending" /\ bobErr' = NoError
               /\ alicePeerId \in connectedPeers
            \/ /\ bobPc' = "cleanup"
               /\ bobErr' = TimeoutError("connection to Alice", 30000)
      ]_vars

\* refreshPeerConnections has thrown and the probe has been sent all the same
C21_Witness ==
    /\ bobCalls # <<>>
    /\ bobCalls[Len(bobCalls)] =
          [ call |-> "refreshPeerConnections", ok |-> FALSE ]
    /\ bobPc = "sending" /\ bobSent # <<>> /\ bobErr = NoError


-----------------------------------------------------------------------------
(* The handleIncomingData wrapper *)

\* the wrapper parses and decrypts message m
WrapperReads(m) == m.outerOk /\ m.hasPayload /\ m.decryptOk

\* the entries of inflight for which the step calls the original
\* handleIncomingData
HandedOver == { e \in inflight' \ inflight : e.stage = "original" }

\* C22: when the wrapper hands a message to the original handleIncomingData,
\* the key merge the wrapper performs for that message is done: the registry
\* holds a key for the sender of every message with a key and a test marker
\* that waits for, or is in, the original handler, and no step after the
\* hand-over is the wrapper's merge for it.  A message that the wrapper
\* cannot parse or decrypt is handed over with the registry unchanged.
C22_HookOrdering ==
    /\ [](\A e \in inflight :
             (e.stage = "original" /\ WrapperReads(e.msg)
                 /\ WrapperDetects(e.msg.payload))
                => HasKeyFor(peerData, e.msg.from))
    /\ [][/\ \A e \in HandedOver :
                /\ ~WrapperReads(e.msg) => UNCHANGED aliceReg
                /\ WrapperReads(e.msg) =>
                      /\ [ e EXCEPT !.stage = "decrypting" ] \in inflight
                      /\ aliceReg' = <<WrapperRegistry(e.msg).peerList,
                                       WrapperRegistry(e.msg).peerData>>
          /\ \A e \in inflight \ inflight' :
                \/ e.stage \in {"original", "originalAgain"}
                \/ [ e EXCEPT !.stage = "original" ] \in inflight'
       ]_vars

\* a test message with a key from a sender the registry did not know waits
\* for the original handler, and the registry holds the key
C22_Witness ==
    \E e \in inflight :
        /\ e.stage = "original" /\ WrapperReads(e.msg)
        /\ WrapperDetects(e.msg.payload)
        /\ HasKeyFor(peerData, e.msg.from)
        /\ Falsy(bobPeerId)


-----------------------------------------------------------------------------
(* The classification of single payloads by the responder *)

\* envelopes with every combination of the three markers, of values that
\* look like a marker and are none, and of an embedded key
MarkerEnvelopes ==
    { [ EmptyObject EXCEPT !.test = t, !.from = f, !.randomNumber = r,
                           !.encryptPubKey = k ] :
        t \in {Undef, JTrue, "'true'"}, f \in {Undef, "'bob'", "'alice'"},
        r \in {Undef, "482913", Null}, k \in {Undef, "'key1'"} }

\* the payloads handlePrivateMessage is given: the envelopes, JSON texts of
\* values that are no objects, and texts that are no JSON
ClassifyPayloads ==
    { JSONStringify(o) : o \in MarkerEnvelopes }
        \cup { JSONStringify(NullData),
               JSONStringify([ type |-> "string", text |-> "'bob'" ]),
               NotJson("'hello'"), NotJson("''") }

\* runTest has reset the test state and waits for the test message
InitClassify ==
    /\ variant \in {1, 2}
    /\ alicePc = "wait"
    /\ alicePoll = PollIterate(
                      PollUntil(500, 60000 * 5, "test message from Bob"),
                      FALSE, 0)
    /\ bobPeerId = Null /\ testMessageReceived = FALSE
    /\ testMessageData = NullData
    /\ acknowledgmentSent = FALSE
    /\ peerList = <<>> /\ peerData = <<>>
    /\ wrapped = FALSE /\ inflight = {}
    /\ aliceSent = <<>> /\ aliceErr = NoError /\ aliceExit = -1
    /\ firstPinned = Null /\ answered = NullData
    /\ FrozenPoll /\ FrozenBob

\* privateLog is called with one of the payloads
ClassifyDelivers ==
    /\ \E d \in ClassifyPayloads, from \in {BobId, EveId} :
          HandlePrivateMessage(d, from)
    /\ UNCHANGED <<variant, wrapped, inflight, aliceRun, pollVars, bobVars>>

NextClassify == ClassifyDelivers

SpecClassify == InitClassify /\ [][NextClassify]_vars

\* the parsed payload carries one of the three markers
HasMarker(md) ==
    /\ md.type = "object"
    /\ \/ md.test = JTrue
       \/ md.from = "'bob'"
       \/ md.randomNumber # Undef

\* C23: Alice's handler treats a payload as a probe exactly when its parsed
\* value carries at least one marker: a probe pins its sender when nobody is
\* pinned and, coming from the pinned sender, sets testMessageReceived and
\* stores the payload; a payload with no marker changes neither bobPeerId
\* nor testMessageReceived nor testMessageData.
C23_ProbeClassification ==
    \A d \in ClassifyPayloads, from \in {BobId, EveId} :
        LET flags  == HandlerFlags(d, from)
            pinned == IF Falsy(bobPeerId) THEN from ELSE bobPeerId
        IN  IF HasMarker(MessageData(d))
            THEN /\ flags.bobPeerId = pinned
                 /\ from = pinned =>
                       /\ flags.testMessageReceived
                       /\ flags.testMessageData = MessageData(d)
                 /\ from # pinned =>
                       /\ flags.testMessageReceived = testMessageReceived
                       /\ flags.testMessageData = testMessageData
            ELSE flags = [ bobPeerId           |-> bobPeerId,
                           testMessageReceived |-> testMessageReceived,
                           testMessageData     |-> testMessageData ]

\* a payload whose only marker is the randomNumber field has been accepted
C23_Witness ==
    /\ testMessageReceived /\ testMessageData.type = "object"
    /\ testMessageData.test # JTrue /\ testMessageData.from # "'bob'"
    /\ testMessageData.randomNumber # Undef
    /\ bobPeerId = BobId


-----------------------------------------------------------------------------
(* The reply of the responder *)

\* C24 as stated: runTest raises the missing-key error only when the
\* registry holds no key for the pinned sender; with a key known, for
\* example from an announcement, the acknowledgment is sent also for a
\* probe without an embedded key.
C24_ReplyWithKnownKey ==
    [][(aliceErr'.kind = "MissingKey" /\ aliceErr.kind # "MissingKey")
          => ~HasKeyFor(peerData, bobPeerId)]_vars


-----------------------------------------------------------------------------
(* What the initiator's handler stores *)

\* C25 as stated: once a message has matched the acknowledgment
\* classification during Bob's wait, acknowledgmentData keeps the payload of
\* that first match; later matching messages do not replace it.
C25_FirstMatchStored ==
    [][(bobPc = "waitAck" /\ acknowledgmentReceived)
          => acknowledgmentData' = acknowledgmentData]_vars


-----------------------------------------------------------------------------
(* Payloads that are no JSON *)

\* the payloads of the model that JSON.parse rejects
MalformedPayloads ==
    { d \in AlicePayloads \cup ClassifyPayloads \cup BobPayloads : ~d.json }

\* Alice's handler leaves its flags, the stored payload, the pinned
\* identity and the registry as they are for every payload that is no JSON
AliceDropsMalformed ==
    \A d \in MalformedPayloads, from \in {BobId, EveId} :
        /\ HandlerFlags(d, from) =
              [ bobPeerId           |-> bobPeerId,
                testMessageReceived |-> testMessageReceived,
                testMessageData     |-> testMessageData ]
        /\ HandlerRegistry(d, from) =
              [ peerList |-> peerList, peerData |-> peerData ]

\* C26 as stated: in both roles a payload that fails to parse as JSON
\* matches no classification and leaves every flag, the stored payload and
\* the pinned identity unchanged: testMessageReceived, testMessageData and
\* bobPeerId on Alice, acknowledgmentReceived, acknowledgmentData and
\* alicePeerId on Bob.
C26_MalformedDropped ==
    /\ []AliceDropsMalformed
    /\ [][\A d \in MalformedPayloads, from \in {AliceId, EveId} :
             (BobHandlerStep /\ BobHandlePrivateMessage(d, from))
                => UNCHANGED <<alicePeerId, acknowledgmentReceived,
                               acknowledgmentData>>]_vars


-----------------------------------------------------------------------------
(* A send that fails *)

\* C27: when sendPrivateMessage fails, Bob does not enter the wait for the
\* acknowledgment and Alice does not set acknowledgmentSent; the send is not
\* repeated, the catch block calls ipfs.stop(), and the process exits with
\* status 1.
C27_FailedSendFatal ==
    /\ [](bobErr.kind = "SendError" =>
             /\ bobPc \in {"cleanup", "exited"}
             /\ Len(bobSent) = 1
             /\ bobPc = "exited" => bobExit = 1)
    /\ [](aliceErr.kind = "SendError" =>
             /\ ~acknowledgmentSent
             /\ alicePc \in {"cleanup", "exited"}
             /\ Len(aliceSent) = 1
             /\ alicePc = "exited" => aliceExit = 1)
    /\ [][/\ (bobPc = "sending" /\ bobPc' # "sending") =>
                \/ bobPc' = "waitAck" /\ bobErr' = NoError
                \/ bobPc' = "cleanup" /\ bobErr'.kind = "SendError"
          /\ (alicePc = "sending" /\ alicePc' # "sending") =>
                \/ alicePc' = "linger" /\ aliceErr' = NoError
                      /\ acknowledgmentSent'
                \/ alicePc' = "cleanup" /\ aliceErr'.kind = "SendError"
                      /\ ~acknowledgmentSent'
          /\ (bobPc = "cleanup" /\ bobPc' # "cleanup") =>
                bobPc' = "exited" /\ bobExit' = 1 /\ bobSent' = bobSent
          /\ (alicePc = "cleanup" /\ alicePc' # "cleanup") =>
                alicePc' = "exited" /\ aliceExit' = 1 /\ aliceSent' = aliceSent
       ]_vars

\* a process has exited with status 1 after its one send failed
C27_Witness ==
    \/ bobPc = "exited" /\ bobErr.kind = "SendError" /\ bobExit = 1
          /\ Len(bobSent) = 1
    \/ alicePc = "exited" /\ aliceErr.kind = "SendError" /\ aliceExit = 1
          /\ Len(aliceSent) = 1 /\ ~acknowledgmentSent


-----------------------------------------------------------------------------
(* The probe *)

\* C28 as stated: every probe that Bob hands to sendPrivateMessage, in
\* either variant, carries a randomNumber, a timestamp and Bob's public key
\* as encryptPubKey.
C28_ProbeContents ==
    \A i \in 1..Len(bobSent) :
        LET testMessage == JSONParse(bobSent[i].message).value
        IN  /\ testMessage.randomNumber # Undef
            /\ testMessage.timestamp # Undef
            /\ ~Falsy(testMessage.encryptPubKey)


-----------------------------------------------------------------------------
(* How often the initiator calls its collaborators *)

\* the calls of a collaborator made so far: those that have settled and the
\* one runTest is awaiting
CallsOf(call, pendingPc) ==
    Cardinality({ i \in 1..Len(bobCalls) : bobCalls[i].call = call })
        + (IF bobPc = pendingPc THEN 1 ELSE 0)

\* C29: in a run of Bob connectToPeer is called at most once,
\* refreshPeerConnections at most once and sendPrivateMessage for the probe
\* at most once, also after the call has failed.
C29_OneShot ==
    /\ CallsOf("connectToPeer", "connecting") <= 1
    /\ CallsOf("refreshPeerConnections", "refresh") <= 1
    /\ Len(bobSent) <= 1

\* a run in which all three calls were made: the direct connection failed,
\* the refresh threw, and the probe was sent
C29_Witness ==
    /\ bobCalls = << [ call |-> "connectToPeer", ok |-> FALSE ],
                     [ call |-> "refreshPeerConnections", ok |-> FALSE ] >>
    /\ Len(bobSent) = 1
    /\ bobPc = "exited"


\* C30 as stated: whenever ALICE_MULTIADDR is configured, in either variant
\* and also when no peer id could be extracted from it, Bob has called
\* connectToPeer before it polls peerList for an announcement.
C30_DirectAttemptFirst ==
    (Len(ALICE_MULTIADDR) > 0 /\ bobPc \in {"anAny", "list", "fbList"})
        => CallsOf("connectToPeer", "connecting") >= 1

-----------------------------------------------------------------------------
(* Termination *)

\* the steps of Alice's start() and runTest: a timer fires or a collaborator
\* returns or throws
AliceWorkflow ==
    \/ AliceStartFails \/ AliceRunTest \/ AliceWakes
    \/ AliceSendResolves \/ AliceSendRejects \/ AliceLingerEnds
    \/ AliceStopResolves \/ AliceStopRejects \/ AliceCleanupEnds

\* the steps of Bob's start() and runTest
BobWorkflow ==
    \/ BobStartFails \/ BobRunTest \/ BobConnectResolves \/ BobConnectRejects
    \/ BobSettled \/ BobWakes \/ BobRefreshResolves \/ BobRefreshRejects
    \/ BobSendResolves \/ BobSendRejects \/ BobStopResolves \/ BobStopRejects
    \/ BobCleanupEnds

\* either role, with every timer firing and every collaborator call settling
SpecLive == SpecRoles /\ WF_vars(AliceWorkflow) /\ WF_vars(BobWorkflow)

\* process.exit is called from the success path after ipfs.stop() returned
\* (status 0), from the catch block of runTest after its ipfs.stop()
\* (status 1), or by start() when the node did not start (status 1)
ExitPaths ==
    /\ aliceExit' # aliceExit =>
          /\ alicePc' = "exited"
          /\ \/ aliceExit' = 0 /\ alicePc = "stopping"
             \/ aliceExit' = 1 /\ alicePc \in {"cleanup", "starting"}
    /\ bobExit' # bobExit =>
          /\ bobPc' = "exited"
          /\ \/ bobExit' = 0 /\ bobPc = "stopping"
             \/ bobExit' = 1 /\ bobPc \in {"cleanup", "starting"}

\* a wake-up that leaves pollUntil in its loop has moved its clock on by at
\* least the interval, and the loop is left once the clock passes the timeout
WaitsAdvance ==
    /\ alicePc = "wait" /\ alicePoll' # alicePoll /\ alicePoll'.pc = "sleep" =>
          /\ alicePoll.intervalMs > 0
          /\ alicePoll'.elapsed >= alicePoll.elapsed + alicePoll.intervalMs
          /\ alicePoll.elapsed < alicePoll.timeoutMs
    /\ bobPc \in BobPollPhases /\ bobPc' = bobPc /\ bobPoll' # bobPoll =>
          /\ bobPoll.intervalMs > 0
          /\ bobPoll'.elapsed >= bobPoll.elapsed + bobPoll.intervalMs
          /\ bobPoll.elapsed < bobPoll.timeoutMs

\* C31: when every timer fires and every call to a collaborator returns or
\* throws, each role's run terminates: every wait is a pollUntil whose clock
\* advances towards a finite timeout, and the process exits with status 0
\* after ipfs.stop() returned or with status 1 after the catch block's
\* ipfs.stop(), whether that one returned or threw.
C31_Termination ==
    /\ <>(alicePc \in {"off", "exited"} /\ bobPc \in {"off", "exited"})
    /\ [][ExitPaths /\ WaitsAdvance]_vars
    /\ [](alicePc = "exited" <=> aliceExit \in {0, 1})
    /\ [](bobPc = "exited" <=> bobExit \in {0, 1})

\* a run that ended through the catch block: Bob's after ipfs.stop() threw on
\* the success path, Alice's after her wait timed out
C31_Witness ==
    \/ bobPc = "exited" /\ bobExit = 1 /\ bobErr.kind = "StopError"
    \/ alicePc = "exited" /\ aliceExit = 1 /\ aliceErr.kind = "Timeout"

-----------------------------------------------------------------------------
(* Consistency of the flags *)

\* whatever message handlePrivateMessage is called with next, it stores the
\* payload only of a test message whose sender is the pinned identity
StoresOnlyFromPinned ==
    \A m \in AliceMessages :
        LET flags == HandlerFlags(m.payload, m.from)
        IN  flags.testMessageData # testMessageData =>
               /\ m.from = flags.bobPeerId
               /\ flags.testMessageReceived
               /\ flags.testMessageData = MessageData(m.payload)
               /\ IsTestMessage(flags.testMessageData)

\* C32: in every state of Alice, testMessageReceived implies that bobPeerId
\* is set and testMessageData is the payload of a test message, stored only
\* for the pinned sender, so that runTest never raises 'Bob peer ID not
\* identified'; in every state of Bob, acknowledgmentReceived implies that
\* alicePeerId is set and acknowledgmentData is not null.
C32_FlagConsistency ==
    /\ testMessageReceived =>
          /\ ~Falsy(bobPeerId)
          /\ testMessageData # NullData
          /\ IsTestMessage(testMessageData)
    /\ StoresOnlyFromPinned
    /\ aliceErr.kind # "BobNotIdentified"
    /\ acknowledgmentReceived =>
          /\ ~Falsy(alicePeerId)
          /\ acknowledgmentData # NullData
          /\ IsAcknowledgment(acknowledgmentData)

\* Alice's wait has returned with the flag set and the sender pinned while a
\* second sender's test message was turned away, or Bob holds an
\* acknowledgment
C32_Witness ==
    \/ /\ alicePc = "sending"
       /\ testMessageReceived
       /\ bobPeerId = BobId
       /\ Includes(peerList, EveId)
    \/ /\ bobPc = "stopping"
       /\ acknowledgmentReceived
       /\ alicePeerId = AliceId

-----------------------------------------------------------------------------
(* Dispatch by the wrapper *)

\* C33: for every inbound message the handleIncomingData wrapper invokes the
\* original handleIncomingData exactly once, whether the raw data fails to
\* parse, the payload fails to decrypt, the original handler throws, or
\* nothing fails: no message is ever handed to the original handler a second
\* time, and none leaves the wrapper without having been handed to it.
C33_SingleDispatch ==
    /\ [](\A e \in inflight : e.stage # "originalAgain")
    /\ [][\A e \in inflight \ inflight' :
             \/ e.stage = "original"
             \/ [ e EXCEPT !.stage = "original" ] \in inflight'
       ]_vars

-----------------------------------------------------------------------------
(* Conditions that turn true during a sleep *)

\* C34: when the polled condition has turned true during a sleep that ended
\* on or before the deadline (start + timeoutMs), the last sleep before the
\* deadline included, and holds when pollUntil resumes, pollUntil returns
\* success and does not raise the timeout error.
C34_NoMissedCondition ==
    [][(/\ poll.pc = "check"
        /\ cond
        /\ poll.elapsed <= poll.timeoutMs
        /\ poll'.pc # "check")
          => poll'.pc = "returned"]_vars

-----------------------------------------------------------------------------
(* A role's own envelope coming back to it *)

\* the state handlePrivateMessage leaves behind when nothing is accepted
AliceFlagsNow ==
    [ bobPeerId |-> bobPeerId, testMessageReceived |-> testMessageReceived,
      testMessageData |-> testMessageData ]

\* C35: the acknowledgment envelope Alice composes is never classified as a
\* test message by Alice's rule, so that her handler changes nothing when it
\* comes back to her from any sender; the test message Bob composes is never
\* classified as an acknowledgment by Bob's rule.
C35_NoCrossClassification ==
    /\ \A i \in 1..Len(aliceSent) :
          /\ ~IsTestMessage(MessageData(aliceSent[i].message))
          /\ \A from \in {AliceId, BobId, EveId} :
                HandlerFlags(aliceSent[i].message, from) = AliceFlagsNow
    /\ \A i \in 1..Len(bobSent) :
          ~IsAcknowledgment(MessageData(bobSent[i].message))

\* Alice has composed an acknowledgment that echoes a correlation value, or
\* Bob has composed his test message
C35_Witness ==
    \/ /\ aliceSent # <<>>
       /\ Prop(MessageData(aliceSent[1].message), "receivedRandomNumber")
             = "482913"
       /\ Prop(MessageData(aliceSent[1].message), "from") = "'alice'"
    \/ /\ bobSent # <<>>
       /\ Prop(MessageData(bobSent[1].message), "test") = JTrue

-----------------------------------------------------------------------------
(* The acknowledgment is sent once *)

\* C36: whatever test messages Alice receives, and from whatever senders,
\* she hands at most one acknowledgment to sendPrivateMessage, addressed to
\* bobPeerId, and only when a test message was received and the registry
\* holds a non-empty key for bobPeerId; acknowledgmentSent implies all of
\* this, and Alice exits with status 0 only after that send has completed
\* without an error.
C36_AtMostOneAcknowledgment ==
    /\ Len(aliceSent) <= 1
    /\ aliceSent # <<>> =>
          /\ testMessageReceived
          /\ ~Falsy(bobPeerId)
          /\ aliceSent[1].to = bobPeerId
          /\ HasKeyFor(peerData, bobPeerId)
          /\ MessageData(aliceSent[1].message)
                = AcknowledgmentMessage(answered)
    /\ acknowledgmentSent => aliceSent # <<>>
    /\ alicePc = "sending" => aliceSent # <<>> /\ ~acknowledgmentSent
    /\ aliceExit = 0 => acknowledgmentSent /\ aliceErr = NoError

\* Alice has exited with status 0 after one acknowledgment to Bob, although
\* a second sender's test message had reached her as well
C36_Witness ==
    /\ aliceExit = 0
    /\ Len(aliceSent) = 1
    /\ bobPeerId = BobId
    /\ HasKeyFor(peerData, EveId)
    /\ variant = 2

-----------------------------------------------------------------------------
(* The two processes together *)

\* Alice's and Bob's processes start, each with its own configuration
InitPair ==
    /\ variant \in {1, 2}
    /\ alicePc = "starting"
    /\ alicePoll = NoPoll
    /\ bobPeerId = Null /\ testMessageReceived = FALSE
    /\ testMessageData = NullData
    /\ acknowledgmentSent = FALSE
    /\ peerList = <<>> /\ peerData = <<>>
    /\ wrapped = FALSE /\ inflight = {}
    /\ aliceSent = <<>> /\ aliceErr = NoError /\ aliceExit = -1
    /\ firstPinned = Null /\ answered = NullData
    /\ bobVariant \in {"announce", "direct"}
    /\ ALICE_MULTIADDR \in Multiaddrs
    /\ bobPc = "starting"
    /\ bobPoll = NoPoll
    /\ alicePeerId = ExtractedPeerId(bobVariant, ALICE_MULTIADDR)
    /\ acknowledgmentReceived = FALSE /\ acknowledgmentData = NullData
    /\ bobPeerList = <<>> /\ bobPeerData = <<>> /\ connectedPeers = {}
    /\ bobSent = <<>> /\ bobErr = NoError /\ bobExit = -1
    /\ directFailed = FALSE /\ listAtFailure = -1 /\ ackDuringSend = FALSE
    /\ connSeen = {} /\ bobCalls = <<>>
    /\ FrozenPoll

\* the message Bob handed to sendPrivateMessage for Alice reaches her node:
\* the wrapper takes it when it is installed, handlePrivateMessage otherwise
ProbeArrives ==
    /\ AliceRunning
    /\ \E i \in 1..Len(bobSent) :
          /\ bobSent[i].to = AliceId
          /\ LET m == [ from |-> BobId, outerOk |-> TRUE, hasPayload |-> TRUE,
                        decryptOk |-> TRUE, payload |-> bobSent[i].message ]
             IN  IF wrapped
                 THEN /\ Cardinality(inflight) < MaxInFlight
                      /\ inflight' = inflight \cup
                                        { [ msg |-> m, stage |-> "decrypting" ] }
                      /\ UNCHANGED <<aliceFlags, aliceReg>>
                 ELSE /\ HandlePrivateMessage(m.payload, m.from)
                      /\ UNCHANGED inflight
    /\ UNCHANGED <<variant, wrapped, aliceRun, pollVars, bobVars>>

\* the message Alice handed to sendPrivateMessage for Bob reaches his
\* handlePrivateMessage
AckArrives ==
    /\ BobRunning
    /\ \E i \in 1..Len(aliceSent) :
          /\ aliceSent[i].to = BobId
          /\ BobHandlePrivateMessage(aliceSent[i].message, AliceId)
    /\ UNCHANGED <<bobConf, bobReg, connectedPeers, bobRun, pollVars, aliceVars>>

NextPair ==
    \/ AliceWorkflow
    \/ BobWorkflow
    \/ BobAnnounced
    \/ BobPeerConnects
    \/ ProbeArrives
    \/ WrapperResume
    \/ OriginalDelivers
    \/ AckArrives

\* both processes and the messages that pass between them; a message may be
\* delayed without limit or never arrive
SpecPair == InitPair /\ [][NextPair]_vars

\* C37, for the runs in which Bob's send completed and every collaborator
\* of Bob returned: no run ends with Alice exited with status 0, her
\* acknowledgment sent, and Bob exited with status 1 because his wait for
\* the acknowledgment timed out, whatever the delay or loss of the
\* acknowledgment and however Bob's handler interleaves with his runTest.
C37_OutcomeAgreement ==
    ~(/\ aliceExit = 0
      /\ acknowledgmentSent
      /\ bobExit = 1
      /\ bobErr = TimeoutError("acknowledgment from Alice", AckTimeoutMs))

-----------------------------------------------------------------------------
(* Test messages that arrive before runTest *)

\* C38: a test message that handlePrivateMessage accepted before runTest
\* reset testMessageReceived, testMessageData and bobPeerId, while
\* ipfsCoord.start() was still awaited, makes Alice's wait succeed without
\* being sent again: the wait does not time out in a run in which such a
\* message was accepted and none has been accepted since the reset.
C38_NoLostProbe ==
    ~(/\ firstPinned # Null
      /\ Falsy(bobPeerId)
      /\ aliceErr = TimeoutError("test message from Bob", 60000 * 5))

-----------------------------------------------------------------------------
(* What Bob's success rests on *)

\* the identity Bob's test message was addressed to
Addressee == bobSent[Len(bobSent)].to

\* acknowledgmentReceived turns true after the test message was handed to
\* sendPrivateMessage
AckObserved ==
    bobSent # <<>> /\ ~acknowledgmentReceived /\ acknowledgmentReceived'

\* C39: Bob exits with status 0 only if, after his send completed and
\* runTest reset the acknowledgment state, handlePrivateMessage accepted a
\* message with an acknowledgment marker from exactly the identity the test
\* message was addressed to; alicePeerId does not change from the send to the
\* end of the run.
C39_GenuineAcknowledgment ==
    /\ [](bobExit = 0 =>
             /\ bobSent # <<>>
             /\ acknowledgmentReceived
             /\ IsAcknowledgment(acknowledgmentData)
             /\ alicePeerId = Addressee)
    /\ [](bobSent # <<>> => alicePeerId = Addressee /\ ~Falsy(alicePeerId))
    /\ [][/\ bobSent # <<>> => alicePeerId' = alicePeerId /\ bobSent' = bobSent
          /\ bobPc' = "waitAck" /\ bobPc # "waitAck" =>
                bobPc = "sending" /\ ~acknowledgmentReceived'
          /\ bobPc' = "stopping" /\ bobPc # "stopping" =>
                bobPc = "waitAck" /\ acknowledgmentReceived
          /\ bobExit' = 0 /\ bobExit # 0 => bobPc = "stopping"
          /\ AckObserved =>
                /\ \E d \in BobPayloads : BobHandlePrivateMessage(d, Addressee)
                /\ \A from \in {AliceId, EveId}, d \in BobPayloads :
                      BobHandlePrivateMessage(d, from) =>
                         /\ from = Addressee
                         /\ IsAcknowledgment(MessageData(d))
       ]_vars

\* Bob has exited with status 0 on the acknowledgment of the peer he wrote
\* to, in a run in which another peer was known to him as well
C39_Witness ==
    /\ bobExit = 0
    /\ bobSent # <<>>
    /\ Addressee = AliceId
    /\ acknowledgmentData.type = "object"
    /\ Includes(bobPeerList, EveId)

=============================================================================
